---- MODULE Spec2Model ----
(***************************************************************************)
(* A model of the RAG core of the book-reading companion backend:         *)
(*   backend/src/rag/vector_store.py      VectorStore                      *)
(*   backend/src/rag/pipeline.py          RAGPipeline                      *)
(*   backend/src/rag/document_processor.py DocumentProcessor._split_text   *)
(*   backend/src/rag/rag_engine.py        RAGEngine                        *)
(*   backend/src/services/book_processor.py BookProcessor                  *)
(*   backend/src/rag/chunker.py           TextChunker.chunk_by_paragraphs  *)
(*   backend/src/ai/rate_limiter.py       AIRateLimiter                    *)
(*   backend/src/services/session_service.py SessionService.create_session *)
(*                                                                         *)
(* Python strings are sequences of one-character strings, so that          *)
(* f"{doc_id}_chunk_{i}" and str.startswith are computed, not assumed.     *)
(* The ChromaDB collection, the generation service and the file system     *)
(* are the environment: every call into them draws its outcome from the    *)
(* outcomes the call can have (it answers, or it raises).                  *)
(***************************************************************************)
EXTENDS Integers, Sequences, FiniteSets, TLC

VARIABLES
    collection,   \* VectorStore.collection ("book_contents"): id -> entry
    op,           \* the pipeline / store call in progress or last returned
    text,         \* _split_text: the text argument
    chunk_size,   \* _split_text: the chunk_size argument
    overlap,      \* _split_text: the overlap argument
    start,        \* _split_text: local start
    chunks,       \* _split_text: local chunks
    windows,      \* _split_text: the [start, end) slices taken so far
    spc,          \* _split_text: position ("loop", "done")
    collections,  \* RAGEngine.chroma_client: collection name -> (id -> document)
    book_contents,\* BookContent rows of the relational store
    eop,          \* the RAGEngine call last returned
    book,         \* the Book row
    bpc,          \* BookProcessor.process_book: position and result
    embeddings_model, \* EmbeddingGenerator.embeddings_model is set
    gop,          \* the EmbeddingGenerator call in progress or last returned
    cop,          \* the CitationService call last returned
    pop,          \* the TextChunker.chunk_by_paragraphs call
    dop,          \* the delete_document_from_rag call running beside op
    requests_by_api_key,  \* AIRateLimiter: api key -> request timestamps
    requests_by_user,     \* AIRateLimiter: user id -> request timestamps
    requests_by_endpoint, \* AIRateLimiter: endpoint -> request timestamps
    global_requests,      \* AIRateLimiter: all request timestamps
    clock,        \* time.time()
    enforce,      \* the enforce_limit calls: caller -> position and locals
    reading_sessions, \* ReadingSession rows: id -> row
    create        \* the create_session calls: caller -> position and locals

ragVars    == <<collection, op>>
splitVars  == <<text, chunk_size, overlap, start, chunks, windows, spc>>
engineVars == <<collections, book_contents, eop>>
bookVars   == <<book, bpc>>
embedVars  == <<embeddings_model, gop>>
citeVars   == <<cop>>
paraVars   == <<pop>>
concVars   == <<dop>>
limitVars  == <<requests_by_api_key, requests_by_user, requests_by_endpoint,
                global_requests, clock, enforce>>
sessionVars == <<reading_sessions, create>>
vars       == <<collection, op, text, chunk_size, overlap, start, chunks,
                windows, spc, collections, book_contents, eop, book, bpc,
                embeddings_model, gop, cop, pop, dop, requests_by_api_key,
                requests_by_user, requests_by_endpoint, global_requests,
                clock, enforce, reading_sessions, create>>

(***************************************************************************)
(* Bounds of the model.                                                    *)
(***************************************************************************)
MaxChunks == 2
MaxLen == 5
MaxSize == 3
MaxIter == 8
MaxRows == 3

(***************************************************************************)
(* Strings.                                                                *)
(***************************************************************************)
CHUNK == <<"_", "c", "h", "u", "n", "k", "_">>

Digits == <<"0", "1", "2", "3", "4", "5", "6", "7", "8", "9">>

RECURSIVE Str(_)
Str(i) ==
    IF i < 10 THEN <<Digits[i + 1]>>
    ELSE Str(i \div 10) \o <<Digits[(i % 10) + 1]>>

StartsWith(s, prefix) ==
    /\ Len(s) >= Len(prefix)
    /\ SubSeq(s, 1, Len(prefix)) = prefix

\* f"{doc_id}_chunk_{i}"
ChunkDocId(doc_id, i) == doc_id \o CHUNK \o Str(i)

\* the f-string prefix of the cascade delete: f"{doc_id}_chunk_"
ChunkPrefix(doc_id) == doc_id \o CHUNK

RECURSIVE SetToSeq(_)
SetToSeq(S) ==
    IF S = {} THEN <<>>
    ELSE LET x == CHOOSE y \in S : TRUE IN <<x>> \o SetToSeq(S \ {x})

Min(a, b) == IF a <= b THEN a ELSE b
Max(a, b) == IF a >= b THEN a ELSE b

(***************************************************************************)
(* Inputs.                                                                 *)
(***************************************************************************)
\* document ids handed to the pipeline (doc_id: str)
DocIds == {<<"a">>, <<"a">> \o CHUNK \o <<"0">>}

\* chunk texts
Texts == {"x", "y"}

\* what process_document can return: a list of at most MaxChunks chunks
ChunkLists == UNION {[1..n -> Texts] : n \in 0..MaxChunks}

NoMetadata == "None"
SomeMetadata == "file_name"

EmptyCollection == <<>>

(***************************************************************************)
(* VectorStore (vector_store.py).  Each method takes the collection and    *)
(* the outcome of its one call into ChromaDB and gives the collection      *)
(* afterwards with the value returned.                                     *)
(***************************************************************************)
Has(coll, id) == id \in DOMAIN coll

Put(coll, id, entry) ==
    [x \in (DOMAIN coll) \cup {id} |-> IF x = id THEN entry ELSE coll[x]]

Remove(coll, id) == [x \in (DOMAIN coll) \ {id} |-> coll[x]]

\* collection.add: it raises; or it stores the record, and for an id the
\* collection already holds it either overwrites the record ("upsert") or
\* leaves the stored record as it is ("keep").
AddOutcomes == {"upsert", "keep", "raise"}

AddDocument(coll, doc_id, content, metadata, outcome) ==
    IF outcome = "raise"
    THEN [collection |-> coll, ret |-> FALSE]
    ELSE IF Has(coll, doc_id) /\ outcome = "keep"
    THEN [collection |-> coll, ret |-> TRUE]
    ELSE [collection |-> Put(coll, doc_id,
                             [content |-> content,
                              metadata |-> IF metadata = NoMetadata
                                           THEN NoMetadata ELSE metadata]),
          ret |-> TRUE]

DeleteOutcomes == {"ok", "raise"}

DeleteDocument(coll, doc_id, outcome) ==
    IF outcome = "raise"
    THEN [collection |-> coll, ret |-> FALSE]
    ELSE [collection |-> Remove(coll, doc_id), ret |-> TRUE]

UpdateDocument(coll, doc_id, content, metadata, delOutcome, addOutcome) ==
    LET d == DeleteDocument(coll, doc_id, delOutcome)
    IN  AddDocument(d.collection, doc_id, content, metadata, addOutcome)

GetOutcomes == {"ok", "raise"}

GetAllDocumentIds(coll, outcome) ==
    IF outcome = "raise" THEN {} ELSE DOMAIN coll

\* collection.query: it answers with the nearest records, it raises, or it
\* answers with a result the formatting loop cannot index.
QueryOutcomes == {"ok", "raise", "malformed"}

SearchReraises(coll, hits, outcome) ==
    IF outcome = "ok"
    THEN [exc |-> FALSE,
          value |-> [k \in 1..Len(hits) |->
                        [id |-> hits[k],
                         content |-> coll[hits[k]].content,
                         distance |-> k - 1,
                         metadata |-> coll[hits[k]].metadata]]]
    ELSE [exc |-> TRUE, value |-> <<>>]

\* search, lines 94-117: every exception of the query or of the formatting
\* loop is caught and [] is returned.
Search(coll, hits, outcome) ==
    IF outcome = "ok"
    THEN [exc |-> FALSE,
          value |-> [k \in 1..Len(hits) |->
                        [id |-> hits[k],
                         content |-> coll[hits[k]].content,
                         distance |-> k - 1,
                         metadata |-> coll[hits[k]].metadata]]]
    ELSE [exc |-> FALSE, value |-> <<>>]

(***************************************************************************)
(* GeminiClient.generate_content (gemini_client.py).                       *)
(***************************************************************************)
GenOutcomes == {"text", "empty", "raise"}

GeneratedText == "generated text"

GenerateContent(outcome) ==
    IF outcome = "raise"
    THEN [exc |-> TRUE, value |-> "Error generating content with Gemini"]
    ELSE [exc |-> FALSE,
          value |-> IF outcome = "text" THEN GeneratedText ELSE ""]

(***************************************************************************)
(* RAGPipeline (pipeline.py): the two queries.                             *)
(***************************************************************************)
NoInfo ==
    "I couldn't find any relevant information in the documents to answer your query."

ErrorFallback ==
    "I encountered an error while processing your query. Please try again."

\* The object behind the module global vector_store, as the pipeline sees
\* it at "await vector_store.search(...)": the VectorStore above, or any
\* other object, whose call raises or whose results lack the keys read.
StoreBehaviours == {"store", "raises", "malformed"}

SearchCall(behaviour, coll, hits, outcome) ==
    IF behaviour = "raises" THEN [exc |-> TRUE, value |-> <<>>]
    ELSE IF behaviour = "malformed"
    THEN [exc |-> FALSE, value |-> <<[id |-> <<"?">>]>>]
    ELSE Search(coll, hits, outcome)

NoResultsSkipped(search_results) == FALSE

\* "if not search_results" (lines 87 and 129)
NoResults(search_results) == search_results = <<>>

Readable(result) == {"id", "content", "distance", "metadata"} \subseteq DOMAIN result

\* the try block of query_rag, lines 84-109
QueryRagTry(search, genOutcome) ==
    IF search.exc
    THEN [exc |-> TRUE, value |-> "exception", gen_calls |-> 0,
          calls |-> <<"search">>]
    ELSE IF NoResults(search.value)
    THEN [exc |-> FALSE, value |-> NoInfo, gen_calls |-> 0,
          calls |-> <<"search">>]
    ELSE IF \E k \in 1..Len(search.value) : "content" \notin DOMAIN search.value[k]
    THEN [exc |-> TRUE, value |-> "KeyError", gen_calls |-> 0,
          calls |-> <<"search">>]
    ELSE LET g == GenerateContent(genOutcome)
         IN  [exc |-> g.exc, value |-> g.value, gen_calls |-> 1,
                   calls |-> <<"search", "generate_content">>]

QueryRagExceptMissing(t) == t

\* the except clause of query_rag, lines 110-113
QueryRagExcept(t) ==
    IF t.exc
    THEN [exc |-> FALSE, value |-> ErrorFallback, gen_calls |-> t.gen_calls,
          calls |-> t.calls]
    ELSE t

QueryRag(search, genOutcome) == QueryRagExcept(QueryRagTry(search, genOutcome))

\* one element of sources, lines 145-153; every content of the model is
\* shorter than the 200 characters of the preview
SourceInfo(result) ==
    [id |-> result.id,
     distance |-> result.distance,
     file_name |-> result.metadata,
     content_preview |-> result.content]

\* the try block of query_rag_with_sources, lines 126-171
QueryRagWithSourcesTry(search, genOutcome) ==
    IF search.exc
    THEN [exc |-> TRUE, value |-> "exception", gen_calls |-> 0,
          calls |-> <<"search">>]
    ELSE IF NoResults(search.value)
    THEN [exc |-> FALSE,
          value |-> [response |-> NoInfo, sources |-> <<>>],
          gen_calls |-> 0,
          calls |-> <<"search">>]
    ELSE IF \E k \in 1..Len(search.value) :
                \/ ~Readable(search.value[k])
                \/ search.value[k].metadata = NoMetadata
    THEN [exc |-> TRUE, value |-> "KeyError or AttributeError", gen_calls |-> 0,
          calls |-> <<"search">>]
    ELSE LET g == GenerateContent(genOutcome)
         IN  IF g.exc
             THEN [exc |-> TRUE, value |-> g.value, gen_calls |-> 1,
                   calls |-> <<"search", "generate_content">>]
             ELSE [exc |-> FALSE,
                   value |-> [response |-> g.value,
                              sources |-> [k \in 1..Len(search.value) |->
                                              SourceInfo(search.value[k])]],
                   gen_calls |-> 1,
                   calls |-> <<"search", "generate_content">>]

\* the except clause of query_rag_with_sources, lines 172-177
QueryRagWithSourcesExcept(t) ==
    IF t.exc
    THEN [exc |-> FALSE,
          value |-> [response |-> ErrorFallback, sources |-> <<>>],
          gen_calls |-> t.gen_calls,
          calls |-> t.calls]
    ELSE t

QueryRagWithSources(search, genOutcome) ==
    QueryRagWithSourcesExcept(QueryRagWithSourcesTry(search, genOutcome))

(***************************************************************************)
(* RAGPipeline: ingestion and cascade delete, one step per awaited call    *)
(* of the vector store.                                                    *)
(***************************************************************************)
Idle == [name |-> "none", running |-> FALSE]

\* DocumentProcessor.process_document as add_document_to_rag sees it: a
\* list of chunks, or an exception (unreadable file, unsupported type).
ProcessOutcomes == {[exc |-> TRUE, value |-> <<>>]}
                   \cup {[exc |-> FALSE, value |-> c] : c \in ChunkLists}

IngestGoesOnRegardless(success) == TRUE

\* lines 64-66: the loop goes on to the next chunk only after a success
IngestGoesOn(success) == success

\* add_document_to_rag up to its first call of the store: lines 43-47, the
\* except clause of lines 69-71 and, for no chunk at all, line 68
IngestEntered(d, p) ==
    [name |-> "ingest", running |-> ~p.exc /\ p.value # <<>>,
     doc |-> d, chunks |-> p.value, i |-> 0, adds |-> <<>>,
     ret |-> IF p.exc THEN "False"
             ELSE IF p.value = <<>> THEN "True" ELSE "pending"]

\* add_document_to_rag called on the pipeline
IngestBegin ==
    /\ ~op.running
    /\ \E d \in DocIds, p \in ProcessOutcomes : op' = IngestEntered(d, p)
    /\ UNCHANGED collection

\* add_document_to_rag, one iteration of the loop, lines 48-66, and the
\* return of line 68 after the last one
IngestChunk ==
    /\ op.running /\ op.name = "ingest"
    /\ \E o \in AddOutcomes :
          LET id == ChunkDocId(op.doc, op.i)
              r  == AddDocument(collection, id, op.chunks[op.i + 1],
                                SomeMetadata, o)
              last == op.i + 1 = Len(op.chunks)
          IN  /\ collection' = r.collection
              /\ op' = [op EXCEPT
                          !.adds = Append(@, r.ret),
                          !.i = @ + 1,
                          !.running = IngestGoesOn(r.ret) /\ ~last,
                          !.ret = IF ~IngestGoesOn(r.ret) THEN "False"
                                  ELSE IF last THEN "True" ELSE "pending"]

\* line 193: id.startswith(f"{doc_id}_chunk_")
BelongsTo(id, doc_id) == StartsWith(id, ChunkPrefix(doc_id))

\* delete_document_from_rag up to its loop, lines 188-193, and the return
\* of line 202 when there is nothing to delete
DeleteEntered(coll, d, g) ==
    LET all_ids == GetAllDocumentIds(coll, g)
        chunk_ids_to_delete == {id \in all_ids : BelongsTo(id, d)}
    IN  [name |-> "delete", running |-> chunk_ids_to_delete # {},
         doc |-> d, todo |-> chunk_ids_to_delete,
         pre |-> coll, raised |-> g = "raise",
         ret |-> IF chunk_ids_to_delete = {} THEN "True" ELSE "pending"]

\* delete_document_from_rag, one iteration of the loop, lines 196-200, and
\* the return of line 202 after the last one: the store and the call after it
DeleteStepped(call, coll, chunk_id, o) ==
    LET r == DeleteDocument(coll, chunk_id, o)
        last == call.todo = {chunk_id}
    IN  [collection |-> r.collection,
         call |-> [call EXCEPT
                     !.todo = IF r.ret THEN @ \ {chunk_id} ELSE @,
                     !.raised = @ \/ o = "raise",
                     !.running = r.ret /\ ~last,
                     !.ret = IF ~r.ret THEN "False"
                             ELSE IF last THEN "True" ELSE "pending"]]

\* delete_document_from_rag called on the pipeline
DeleteBegin ==
    /\ ~op.running
    /\ \E d \in DocIds, g \in GetOutcomes :
          op' = DeleteEntered(collection, d, g)
    /\ UNCHANGED collection

\* delete_document_from_rag, one iteration of the loop
DeleteChunk ==
    /\ op.running /\ op.name = "delete"
    /\ \E chunk_id \in op.todo, o \in DeleteOutcomes :
          LET r == DeleteStepped(op, collection, chunk_id, o)
          IN  /\ collection' = r.collection
              /\ op' = r.call

\* the ids a call of the store may name
StoreIds == {ChunkDocId(d, i) : d \in DocIds, i \in 0..(MaxChunks - 1)}

\* VectorStore.add_document called on the store
StoreAdd ==
    /\ ~op.running
    /\ \E id \in StoreIds, c \in Texts, ao \in AddOutcomes :
          LET r == AddDocument(collection, id, c, SomeMetadata, ao)
          IN  /\ collection' = r.collection
              /\ op' = [name |-> "add", running |-> FALSE, doc_id |-> id,
                         content |-> c,
                         ret |-> IF r.ret THEN "True" ELSE "False"]

\* VectorStore.delete_document called on the store
StoreDelete ==
    /\ ~op.running
    /\ \E id \in StoreIds, do \in DeleteOutcomes :
          LET r == DeleteDocument(collection, id, do)
          IN  /\ collection' = r.collection
              /\ op' = [name |-> "remove", running |-> FALSE, doc_id |-> id,
                         ret |-> IF r.ret THEN "True" ELSE "False"]

\* VectorStore.update_document called on the store
Update ==
    /\ ~op.running
    /\ \E id \in StoreIds, c \in Texts,
          do \in DeleteOutcomes, ao \in AddOutcomes :
          LET d == DeleteDocument(collection, id, do)
              r == UpdateDocument(collection, id, c, SomeMetadata, do, ao)
          IN  /\ collection' = r.collection
              /\ op' = [name |-> "update", running |-> FALSE, doc_id |-> id,
                         content |-> c, deleted |-> d.ret,
                         removed |-> ~Has(d.collection, id),
                         added |-> ao # "raise",
                         ret |-> IF r.ret THEN "True" ELSE "False"]

\* n_results of a query: the default of query_rag and query_rag_with_sources
DefaultNResults == 5

\* what collection.query can answer with: the nearest n_results records,
\* or all of them when the collection holds fewer
Hits(coll, n) ==
    {SetToSeq(h) : h \in {s \in SUBSET DOMAIN coll :
                             Cardinality(s) = Min(n, Cardinality(DOMAIN coll))}}

Query ==
    /\ ~op.running
    /\ \E which \in {"query_rag", "query_rag_with_sources"},
          b \in StoreBehaviours, q \in QueryOutcomes,
          g \in GenOutcomes :
        \E hits \in Hits(collection, DefaultNResults) :
          LET search == SearchCall(b, collection, hits, q)
              r == IF which = "query_rag" THEN QueryRag(search, g)
                   ELSE QueryRagWithSources(search, g)
          IN  /\ b # "store" => q = "ok"
              /\ r.gen_calls = 0 => g = "text"
              /\ op' = [name |-> which, running |-> FALSE,
                         behaviour |-> b, query |-> q, search |-> search,
                         generation |-> IF r.gen_calls = 0 THEN "not called" ELSE g,
                         gen_calls |-> r.gen_calls, calls |-> r.calls,
                         exc |-> r.exc, ret |-> r.value]
    /\ UNCHANGED collection

(***************************************************************************)
(* The pipeline and its store.                                             *)
(***************************************************************************)
SplitIdle ==
    /\ text = <<>> /\ chunk_size = 1 /\ overlap = 0 /\ start = 0
    /\ chunks = <<>> /\ windows = <<>> /\ spc = "done"

EngineIdle ==
    /\ collections = <<>> /\ book_contents = {} /\ eop = Idle

NoBook == [exists |-> FALSE, is_processed |-> FALSE, processing_error |-> "None"]

BookIdle ==
    /\ book = NoBook /\ bpc = Idle

EmbedIdle ==
    /\ embeddings_model = TRUE /\ gop = Idle

CiteIdle == cop = Idle

ParaIdle == pop = Idle

ConcIdle == dop = Idle

LimitIdle ==
    /\ requests_by_api_key = <<>> /\ requests_by_user = <<>>
    /\ requests_by_endpoint = <<>> /\ global_requests = <<>>
    /\ clock = 0 /\ enforce = <<>>

SessionIdle == reading_sessions = <<>> /\ create = <<>>

Init ==
    /\ collection = EmptyCollection
    /\ op = Idle
    /\ SplitIdle /\ EngineIdle /\ BookIdle /\ EmbedIdle /\ CiteIdle
    /\ ParaIdle /\ ConcIdle /\ LimitIdle /\ SessionIdle

Next ==
    \/ IngestBegin /\ UNCHANGED <<splitVars, engineVars, bookVars, embedVars, citeVars,
                 paraVars, concVars, limitVars, sessionVars>>
    \/ IngestChunk /\ UNCHANGED <<splitVars, engineVars, bookVars, embedVars, citeVars,
                 paraVars, concVars, limitVars, sessionVars>>
    \/ DeleteBegin /\ UNCHANGED <<splitVars, engineVars, bookVars, embedVars, citeVars,
                 paraVars, concVars, limitVars, sessionVars>>
    \/ DeleteChunk /\ UNCHANGED <<splitVars, engineVars, bookVars, embedVars, citeVars,
                 paraVars, concVars, limitVars, sessionVars>>
    \/ Query /\ UNCHANGED <<splitVars, engineVars, bookVars, embedVars, citeVars,
                 paraVars, concVars, limitVars, sessionVars>>

Spec == Init /\ [][Next]_vars

(***************************************************************************)
(* The vector store alone, its methods called one after another.           *)
(***************************************************************************)
NextStore ==
    \/ StoreAdd /\ UNCHANGED <<splitVars, engineVars, bookVars, embedVars, citeVars,
                 paraVars, concVars, limitVars, sessionVars>>
    \/ StoreDelete /\ UNCHANGED <<splitVars, engineVars, bookVars, embedVars, citeVars,
                 paraVars, concVars, limitVars, sessionVars>>
    \/ Update /\ UNCHANGED <<splitVars, engineVars, bookVars, embedVars, citeVars,
                 paraVars, concVars, limitVars, sessionVars>>

SpecStore == Init /\ [][NextStore]_vars

(***************************************************************************)
(* Claims about the pipeline and the store.                                *)
(***************************************************************************)
Queries == {"query_rag", "query_rag_with_sources"}

\* the ids add_document_to_rag writes for a document: d_chunk_0, d_chunk_1, ...
IdsWrittenFor(d) == {ChunkDocId(d, i) : i \in 0..(MaxChunks - 1)}

\* C1: cascade delete is exact.  When delete_document_from_rag(d) returns
\* True (and no call of the store raised during it), the ids of the store
\* are the ids it held before minus the ids d_chunk_i written for d, and
\* every id written for another document d2 is still there, unchanged.
C1_CascadeDeleteExact ==
    (op.name = "delete" /\ op.ret = "True" /\ ~op.raised) =>
        /\ DOMAIN collection = (DOMAIN op.pre) \ IdsWrittenFor(op.doc)
        /\ \A d2 \in DocIds \ {op.doc} :
             \A id \in IdsWrittenFor(d2) \cap DOMAIN op.pre :
                Has(collection, id) /\ collection[id] = op.pre[id]

\* C2: when the search of a query yields no result, the query returns the
\* no-relevant-information sentinel (with sources = [] in the with-sources
\* variant) and generate_content is not invoked during the call.
C2_EmptySearchGivesSentinel ==
    (op.name \in Queries /\ ~op.search.exc /\ op.search.value = <<>>) =>
        /\ op.gen_calls = 0
        /\ op.generation = "not called"
        /\ op.name = "query_rag" => op.ret = NoInfo
        /\ op.name = "query_rag_with_sources" =>
               op.ret = [response |-> NoInfo, sources |-> <<>>]

C2_Witness ==
    /\ op.name = "query_rag_with_sources"
    /\ op.behaviour = "store" /\ op.query = "ok"
    /\ op.search.value = <<>>
    /\ op.ret.response = NoInfo

ResponseStrings == {NoInfo, ErrorFallback, GeneratedText, ""}

\* C3: no exception escapes a query.  Whatever the vector store and the
\* generation service do, query_rag returns a string and
\* query_rag_with_sources a record {response, sources}; when the search call
\* or the generation call raises, the response is the error fallback and, in
\* the with-sources variant, sources is empty.
C3_NoExceptionEscapesQuery ==
    /\ op.name = "query_rag" =>
          /\ ~op.exc
          /\ op.ret \in ResponseStrings
          /\ (op.search.exc \/ op.generation = "raise") => op.ret = ErrorFallback
    /\ op.name = "query_rag_with_sources" =>
          /\ ~op.exc
          /\ DOMAIN op.ret = {"response", "sources"}
          /\ op.ret.response \in ResponseStrings
          /\ (op.search.exc \/ op.generation = "raise") =>
                op.ret = [response |-> ErrorFallback, sources |-> <<>>]

C3_Witness ==
    /\ op.name = "query_rag_with_sources"
    /\ op.generation = "raise"
    /\ op.ret = [response |-> ErrorFallback, sources |-> <<>>]

\* C4: ingestion aborts on the first chunk failure, without rollback.  Once
\* add_document has failed at index N the call returns False and invokes
\* add_document for no later index, the chunks 0..N-1 stay in the store,
\* and the call returns True only if add_document succeeded for every chunk.
C4_IngestAbortsOnFirstFailure ==
    op.name = "ingest" =>
        /\ \A k \in 1..Len(op.adds) :
             ~op.adds[k] =>
                /\ k = Len(op.adds)
                /\ ~op.running /\ op.ret = "False"
                /\ \A j \in 0..(k - 2) : Has(collection, ChunkDocId(op.doc, j))
        /\ op.ret = "True" =>
                /\ Len(op.adds) = Len(op.chunks)
                /\ \A k \in 1..Len(op.adds) : op.adds[k]

C4_Witness ==
    /\ op.name = "ingest" /\ op.ret = "False" /\ ~op.running
    /\ Len(op.adds) = 2 /\ op.adds[1] /\ ~op.adds[2]
    /\ Has(collection, ChunkDocId(op.doc, 0))
    /\ ~Has(collection, ChunkDocId(op.doc, 1))

\* C8: re-ingestion replaces wholesale.  After add_document_to_rag(d) has
\* returned True the entries of the store for d are exactly the chunks of
\* that ingestion: no other index, no other content.
C8_ReingestionReplaces ==
    (op.name = "ingest" /\ op.ret = "True") =>
        /\ {id \in DOMAIN collection : id \in IdsWrittenFor(op.doc)}
             = {ChunkDocId(op.doc, i) : i \in 0..(Len(op.chunks) - 1)}
        /\ \A i \in 0..(Len(op.chunks) - 1) :
             /\ Has(collection, ChunkDocId(op.doc, i))
             /\ collection[ChunkDocId(op.doc, i)].content = op.chunks[i + 1]

\* C9: update_document is delete followed by add, and not atomic.  If the
\* add step fails after the delete step removed the entry, it returns False
\* and the store holds no entry for doc_id; it returns True only if the add
\* step succeeded, and then the store holds doc_id with the new content.
C9_UpdateIsDeleteThenAdd ==
    op.name = "update" =>
        /\ (op.removed /\ ~op.added) =>
              op.ret = "False" /\ ~Has(collection, op.doc_id)
        /\ op.ret = "True" =>
              /\ op.added
              /\ Has(collection, op.doc_id)
              /\ collection[op.doc_id].content = op.content

\* C10: a failure of the store looks like no result.  VectorStore.search
\* never raises; when the query of the backing collection fails it returns
\* [], and query_rag then returns what it returns against an empty store,
\* the no-relevant-information sentinel, without invoking generation.
C10_StoreFailureLooksEmpty ==
    (op.name \in Queries /\ op.behaviour = "store") =>
        /\ ~op.search.exc
        /\ op.query # "ok" => op.search.value = <<>>
        /\ (op.name = "query_rag" /\ op.query # "ok") =>
              /\ op.ret = QueryRag(Search(EmptyCollection, <<>>, "ok"), "text").value
              /\ op.ret = NoInfo
              /\ op.gen_calls = 0

C10_Witness ==
    /\ op.name = "query_rag"
    /\ op.behaviour = "store" /\ op.query = "raise"
    /\ collection # EmptyCollection
    /\ op.ret = NoInfo

(***************************************************************************)
(* DocumentProcessor._split_text (document_processor.py), one step per     *)
(* iteration of its while loop.  Offsets are Python's, from 0; a slice     *)
(* text[a:b] is the characters a+1..b of the sequence.                     *)
(***************************************************************************)
Alphabet == {"a", ".", " ", "\n"}

Whitespace == {" ", "\n", "\r"}

\* the separators of line 247, in the order the loop tries them
Seps == << <<".", "\n">>, <<".", " ">>, <<"!", " ">>, <<"?", " ">>,
           <<"\n", "\n">>, <<"\n">> >>

\* text[a:b]
Slice(s, a, b) == SubSeq(s, Max(a, 0) + 1, Min(b, Len(s)))

RECURSIVE LStrip(_)
LStrip(s) ==
    IF s # <<>> /\ Head(s) \in Whitespace THEN LStrip(Tail(s)) ELSE s

RECURSIVE RStrip(_)
RStrip(s) ==
    IF s # <<>> /\ s[Len(s)] \in Whitespace
    THEN RStrip(SubSeq(s, 1, Len(s) - 1)) ELSE s

\* str.strip()
Strip(s) == RStrip(LStrip(s))

\* text.rfind(sep, lo, hi): the highest offset i with lo <= i and
\* i + len(sep) <= hi at which sep occurs, or -1; a negative lo counts
\* from the end of the text
RFind(s, sep, lo, hi) ==
    LET from == IF lo < 0 THEN Max(Len(s) + lo, 0) ELSE lo
        to   == Min(hi, Len(s))
        found == {i \in from..(to - Len(sep)) :
                     SubSeq(s, i + 1, i + Len(sep)) = sep}
    IN  IF found = {} THEN -1
        ELSE CHOOSE i \in found : \A j \in found : j <= i

\* lines 245-251: the end of the first separator, in the order of Seps,
\* that occurs in text[search_start:end], taken at its last occurrence
RECURSIVE SentenceEnd(_, _, _, _)
SentenceEnd(s, search_start, end, k) ==
    IF k > Len(Seps) THEN -1
    ELSE LET last_sep == RFind(s, Seps[k], search_start, end)
         IN  IF last_sep # -1 THEN last_sep + Len(Seps[k])
             ELSE SentenceEnd(s, search_start, end, k + 1)

\* lines 239-257: where the chunk that begins at st ends
ChunkEnd(s, st, size, ov) ==
    LET end == st + size
    IN  IF end < Len(s)
        THEN LET search_start == end - ov
                 sentence_end == SentenceEnd(s, search_start, end, 1)
             IN  IF sentence_end # -1 /\ sentence_end > search_start
                 THEN sentence_end
                 ELSE Min(end, Len(s))
        ELSE end

NextStartSkips(end, ov) == end + 1

NextStartStepsBackTwice(end, ov) ==
    IF ov > 0 /\ end > 2 * ov THEN end - 2 * ov ELSE end

\* lines 263-267: where the next chunk begins
NextStart(end, ov) ==
    IF ov > 0 /\ end > ov THEN end - ov ELSE end

\* lines 232-236
SplitEnter ==
    /\ spc = "call"
    /\ IF Len(text) <= chunk_size
       THEN /\ chunks' = <<text>>
            /\ windows' = << <<0, Len(text)>> >>
            /\ spc' = "done"
       ELSE /\ chunks' = <<>>
            /\ windows' = <<>>
            /\ spc' = "loop"
    /\ start' = 0
    /\ UNCHANGED <<text, chunk_size, overlap>>

\* one iteration of the loop, lines 238-267, and the return of line 269
\* when the loop condition fails after it
SplitStep ==
    /\ spc = "loop"
    /\ Len(windows) < MaxIter
    /\ LET end == ChunkEnd(text, start, chunk_size, overlap)
           chunk == Strip(Slice(text, start, end))
       IN  /\ chunks' = IF chunk # <<>> THEN Append(chunks, chunk) ELSE chunks
           /\ windows' = Append(windows, <<start, end>>)
           /\ start' = NextStart(end, overlap)
           /\ spc' = IF NextStart(end, overlap) < Len(text)
                     THEN "loop" ELSE "done"
    /\ UNCHANGED <<text, chunk_size, overlap>>

StringsUpTo(n) == UNION {[1..k -> Alphabet] : k \in 0..n}

RagIdle == collection = EmptyCollection /\ op = Idle

InitSplit ==
    /\ text \in StringsUpTo(MaxLen)
    /\ chunk_size \in 1..MaxSize
    /\ overlap \in 0..MaxSize
    /\ start = 0 /\ chunks = <<>> /\ windows = <<>> /\ spc = "call"
    /\ RagIdle /\ EngineIdle /\ BookIdle /\ EmbedIdle /\ CiteIdle
    /\ ParaIdle /\ ConcIdle /\ LimitIdle /\ SessionIdle

NextSplit ==
    \/ SplitEnter /\ UNCHANGED <<ragVars, engineVars, bookVars, embedVars, citeVars,
                 paraVars, concVars, limitVars, sessionVars>>
    \/ SplitStep /\ UNCHANGED <<ragVars, engineVars, bookVars, embedVars, citeVars,
                 paraVars, concVars, limitVars, sessionVars>>

SpecSplit == InitSplit /\ [][NextSplit]_vars

(***************************************************************************)
(* RAGEngine (rag_engine.py) over the BookContent rows of the relational   *)
(* store.                                                                  *)
(***************************************************************************)
\* book ids (the primary keys of Book, as strings)
BookIds == {<<"b", "1">>, <<"b", "2">>}

\* the primary key of the n-th BookContent row, default=uuid.uuid4
Uuid(n) == <<"f", "0", "-">> \o Str(n)

\* f"book_{book_id}"
CollectionName(book_id) == <<"b", "o", "o", "k", "_">> \o book_id

\* the rows BookService.process_book_content stores for a book whose content
\* splits into the given chunks (book_service.py, lines 199-221)
ContentRows(book_id, contents, first) ==
    {[id |-> Uuid(first + k),
      book_id |-> book_id,
      chunk_id |-> ChunkDocId(book_id, k),
      content |-> contents[k + 1]] : k \in 0..(Len(contents) - 1)}

StoreBookContent ==
    /\ \E b \in BookIds, c \in ChunkLists \ {<<>>} :
          /\ Cardinality(book_contents) + Len(c) <= MaxRows
          /\ book_contents' =
                book_contents \cup ContentRows(b, c, Cardinality(book_contents))
    /\ UNCHANGED <<collections, eop>>

EmbedOutcomes == {"ok", "raise"}

\* collection.add of a batch: it raises and adds nothing, or it stores the
\* records, overwriting ("upsert") or leaving ("keep") the ids it holds
AddBatch(coll, rows, outcome) ==
    [id \in (DOMAIN coll) \cup {r.id : r \in rows} |->
        IF id \in DOMAIN coll /\ (outcome = "keep" \/ id \notin {r.id : r \in rows})
        THEN coll[id]
        ELSE LET r == CHOOSE x \in rows : x.id = id
             IN  [document |-> r.content, chunk_id |-> r.chunk_id,
                  book_id |-> r.book_id]]

\* add_book_content_to_index, lines 95-137
AddBookContentToIndex ==
    /\ \E b \in BookIds, e \in EmbedOutcomes, a \in AddOutcomes :
          LET content_chunks == {r \in book_contents : r.book_id = b}
              name == CollectionName(b)
              created == IF name \in DOMAIN collections THEN collections
                         ELSE [n \in (DOMAIN collections) \cup {name} |->
                                 IF n = name THEN EmptyCollection
                                 ELSE collections[n]]
          IN  IF content_chunks = {}
              THEN /\ e = "ok" /\ a = "upsert"
                   /\ eop' = [name |-> "index", running |-> FALSE,
                               book_id |-> b, embed |-> "not called",
                               exc |-> FALSE, indexed_chunks |-> 0]
                   /\ UNCHANGED collections
              ELSE IF e = "raise" \/ a = "raise"
              THEN /\ e = "raise" => a = "upsert"
                   /\ eop' = [name |-> "index", running |-> FALSE,
                               book_id |-> b, embed |-> e,
                               exc |-> TRUE, indexed_chunks |-> 0]
                   /\ collections' = created
              ELSE /\ eop' = [name |-> "index", running |-> FALSE,
                               book_id |-> b, embed |-> e, exc |-> FALSE,
                               indexed_chunks |-> Cardinality(content_chunks)]
                   /\ collections' =
                         [created EXCEPT ![name] = AddBatch(@, content_chunks, a)]
    /\ UNCHANGED book_contents

\* cosine distances, as collection.query reports them
Distances == 0..2

RelevanceScoreClamped(distance) == Max(0, 1 - distance)

\* line 78: relevance_score
RelevanceScore(distance) == 1 - distance

GetOrCreateCollection(colls, name) ==
    [found |-> TRUE,
     collections |-> IF name \in DOMAIN colls THEN colls
                     ELSE [n \in (DOMAIN colls) \cup {name} |->
                             IF n = name THEN EmptyCollection ELSE colls[n]]]

\* lines 49-53: chroma_client.get_collection inside try/except; a name the
\* client does not hold is not found, and nothing is created
GetCollection(colls, name) ==
    [found |-> name \in DOMAIN colls, collections |-> colls]

\* search_similar_content, lines 46-82
SearchSimilarContent ==
    /\ \E b \in BookIds, e \in EmbedOutcomes, q \in {"ok", "raise"} :
          LET name == CollectionName(b)
              g == GetCollection(collections, name)
          IN  /\ collections' = g.collections
              /\ IF ~g.found
                 THEN /\ e = "ok" /\ q = "ok"
                      /\ eop' = [name |-> "search", running |-> FALSE,
                               book_id |-> b, embed |-> "not called",
                               exc |-> FALSE, embed_calls |-> 0,
                               ret |-> <<>>]
                 ELSE IF e = "raise" \/ q = "raise"
                 THEN /\ e = "raise" => q = "ok"
                      /\ eop' = [name |-> "search", running |-> FALSE,
                               book_id |-> b, embed |-> e,
                               exc |-> TRUE, embed_calls |-> 1,
                               ret |-> <<>>]
                 ELSE \E hits \in Hits(g.collections[name], DefaultNResults) :
                      \E distances \in [1..Len(hits) -> Distances] :
                        eop' = [name |-> "search", running |-> FALSE,
                              book_id |-> b, embed |-> e,
                              exc |-> FALSE, embed_calls |-> 1,
                              ret |-> [k \in 1..Len(hits) |->
                                  [id |-> hits[k],
                                   content |-> g.collections[name][hits[k]].document,
                                   distance |-> distances[k],
                                   relevance_score |-> RelevanceScore(distances[k]),
                                   source |-> b]]]
    /\ UNCHANGED book_contents

InitEngine ==
    /\ collections = <<>> /\ book_contents = {} /\ eop = Idle
    /\ RagIdle /\ SplitIdle /\ BookIdle /\ EmbedIdle /\ CiteIdle
    /\ ParaIdle /\ ConcIdle /\ LimitIdle /\ SessionIdle

NextEngine ==
    \/ StoreBookContent /\ UNCHANGED <<ragVars, splitVars, bookVars, embedVars, citeVars,
                 paraVars, concVars, limitVars, sessionVars>>
    \/ AddBookContentToIndex /\ UNCHANGED <<ragVars, splitVars, bookVars, embedVars, citeVars,
                 paraVars, concVars, limitVars, sessionVars>>
    \/ SearchSimilarContent /\ UNCHANGED <<ragVars, splitVars, bookVars, embedVars, citeVars,
                 paraVars, concVars, limitVars, sessionVars>>

SpecEngine == InitEngine /\ [][NextEngine]_vars

(***************************************************************************)
(* BookProcessor.process_book (book_processor.py) with the ingestion it    *)
(* awaits.                                                                 *)
(***************************************************************************)
\* the id of the one Book row and the name of its file
TheBook == <<"b", "1">>

FileName == <<"f", ".", "t", "x", "t">>

NoError == "None"

\* _update_processing_status, lines 109-135
UpdateProcessingStatus(b, is_processed, processing_error) ==
    IF b.exists
    THEN [b EXCEPT !.is_processed = is_processed,
                   !.processing_error = processing_error]
    ELSE b

\* the BookContent rows of lines 64-77: chunk_id is the chunk_metadata
\* chunk_id of process_document, f"{file_name}_chunk_{i}"
ProcessorRows(book_id, contents, first) ==
    {[id |-> Uuid(first + k),
      book_id |-> book_id,
      chunk_id |-> ChunkDocId(FileName, k),
      content |-> contents[k + 1]] : k \in 0..(Len(contents) - 1)}

BookReturned(ret) == [name |-> "process_book", running |-> FALSE, ret |-> ret]

\* process_book, lines 37-95: everything up to the awaited
\* add_document_to_rag, with the except clause of lines 104-107
ProcessBookBegin ==
    /\ ~bpc.running /\ ~op.running
    /\ \E file_exists \in BOOLEAN, p \in ProcessOutcomes,
          commit \in {"ok", "raise"}, p2 \in ProcessOutcomes :
          IF ~book.exists
          THEN /\ file_exists /\ ~p.exc /\ p.value = <<>> /\ commit = "ok" /\ p2 = p
               /\ bpc' = BookReturned("False")
               /\ UNCHANGED <<book, book_contents, op>>
          ELSE IF ~file_exists
          THEN /\ ~p.exc /\ p.value = <<>> /\ commit = "ok" /\ p2 = p
               /\ book' = UpdateProcessingStatus(book, FALSE, "File does not exist")
               /\ bpc' = BookReturned("False")
               /\ UNCHANGED <<book_contents, op>>
          ELSE IF p.exc \/ commit = "raise"
          THEN /\ p.exc => commit = "ok"
               /\ p2 = p
               /\ book' = UpdateProcessingStatus(book, FALSE, "str(e)")
               /\ bpc' = BookReturned("False")
               /\ UNCHANGED <<book_contents, op>>
          ELSE /\ Cardinality(book_contents) + Len(p.value) <= MaxRows
               /\ book_contents' = book_contents \cup
                     ProcessorRows(TheBook, p.value, Cardinality(book_contents))
               /\ book' = UpdateProcessingStatus(book, TRUE, NoError)
               /\ op' = IngestEntered(TheBook, p2)
               /\ bpc' = [name |-> "process_book", running |-> TRUE,
                           ret |-> "pending"]
    /\ UNCHANGED <<collection, collections, eop>>

\* process_book, lines 97-102: the value of add_document_to_rag decides
ProcessBookEnd ==
    /\ bpc.running /\ ~op.running
    /\ bpc' = BookReturned(op.ret)
    /\ UNCHANGED <<book, book_contents, collection, op, collections, eop>>

InitBook ==
    /\ book \in {NoBook, [NoBook EXCEPT !.exists = TRUE]}
    /\ bpc = Idle
    /\ RagIdle /\ SplitIdle /\ EngineIdle /\ EmbedIdle /\ CiteIdle
    /\ ParaIdle /\ ConcIdle /\ LimitIdle /\ SessionIdle

NextBook ==
    \/ ProcessBookBegin /\ UNCHANGED <<splitVars, embedVars, citeVars,
                 paraVars, concVars, limitVars, sessionVars>>
    \/ IngestChunk /\ UNCHANGED <<splitVars, engineVars, bookVars, embedVars, citeVars,
                 paraVars, concVars, limitVars, sessionVars>>
    \/ ProcessBookEnd /\ UNCHANGED <<splitVars, embedVars, citeVars,
                 paraVars, concVars, limitVars, sessionVars>>

SpecBook == InitBook /\ [][NextBook]_vars

\* the text the windows give back when each window contributes what lies
\* beyond the end of the windows before it
RECURSIVE Rejoin(_, _, _)
Rejoin(s, ws, covered) ==
    IF ws = <<>> THEN <<>>
    ELSE Slice(s, Max(Head(ws)[1], covered), Head(ws)[2])
         \o Rejoin(s, Tail(ws), Max(covered, Min(Head(ws)[2], Len(s))))

\* the chunks the windows give: each window trimmed, the empty ones dropped
RECURSIVE ChunksOf(_, _)
ChunksOf(s, ws) ==
    IF ws = <<>> THEN <<>>
    ELSE LET c == Strip(Slice(s, Head(ws)[1], Head(ws)[2]))
         IN  (IF c = <<>> THEN <<>> ELSE <<c>>) \o ChunksOf(s, Tail(ws))

IsChunkIdOf(id, d) == \E i \in 0..MaxRows : id = ChunkDocId(d, i)

\* C6: chunk-id naming.  Every id an ingestion writes to the vector store
\* for a document d has the form d_chunk_i, in the collection of
\* add_document_to_rag and in the per-book collections of
\* add_book_content_to_index; a successful add_document_to_rag has written
\* the indices 0..n-1 in chunk order.
C6_ChunkIdNaming ==
    /\ \A id \in DOMAIN collection : \E d \in DocIds \cup {TheBook} : IsChunkIdOf(id, d)
    /\ \A b \in BookIds :
          CollectionName(b) \in DOMAIN collections =>
             \A id \in DOMAIN collections[CollectionName(b)] : IsChunkIdOf(id, b)
    /\ (op.name = "ingest" /\ op.ret = "True") =>
          /\ Len(op.adds) = Len(op.chunks)
          /\ \A i \in 0..(Len(op.chunks) - 1) :
                Has(collection, ChunkDocId(op.doc, i))

\* C7: failure is recorded on the Book.  For a book that exists, when
\* process_book returns False the row ends with is_processed = False and a
\* processing_error, and when it returns True with is_processed = True and
\* no processing_error.
C7_FailureRecordedOnBook ==
    (bpc.name = "process_book" /\ ~bpc.running /\ book.exists) =>
        /\ bpc.ret = "False" =>
              ~book.is_processed /\ book.processing_error # NoError
        /\ bpc.ret = "True" =>
              book.is_processed /\ book.processing_error = NoError

(***************************************************************************)
(* EmbeddingGenerator (embedding_generator.py).                            *)
(***************************************************************************)
MaxTexts == 3

\* Optional[List[float]]
None == [some |-> FALSE, v |-> <<>>]

Some(v) == [some |-> TRUE, v |-> v]

\* the texts handed to the generator: empty, blank, and two that differ
EmbedTexts == {<<>>, <<" ">>, <<"x">>, <<"y">>}

TextLists ==
    UNION {[1..n -> EmbedTexts] : n \in 0..MaxTexts}

\* "not text or not text.strip()", line 32
Blank(t) == t = <<>> \/ Strip(t) = <<>>

\* embeddings_model.embed_query: it answers with a vector or it raises
EmbedVectors == {<<1, 0>>, <<0, 1>>}

ModelOutcomes ==
    {[exc |-> TRUE, v |-> <<>>]} \cup {[exc |-> FALSE, v |-> v] : v \in EmbedVectors}

NotCalled == [exc |-> FALSE, v |-> <<>>]

GenerateEmbeddingRetries(t, model, m) ==
    IF Blank(t) \/ ~model
    THEN [exc |-> FALSE, ret |-> None, calls |-> <<>>]
    ELSE IF m.exc
    THEN [exc |-> FALSE, ret |-> None, calls |-> <<t, t>>]
    ELSE [exc |-> FALSE, ret |-> Some(m.v), calls |-> <<t>>]

\* generate_embedding, lines 31-44; calls lists the texts handed to
\* embed_query during the call
GenerateEmbedding(t, model, m) ==
    IF Blank(t)
    THEN [exc |-> FALSE, ret |-> None, calls |-> <<>>]
    ELSE IF ~model
    THEN [exc |-> FALSE, ret |-> None, calls |-> <<>>]
    ELSE IF m.exc
    THEN [exc |-> FALSE, ret |-> None, calls |-> <<t>>]
    ELSE [exc |-> FALSE, ret |-> Some(m.v), calls |-> <<t>>]

\* generate_embedding called on the generator
GenerateEmbeddingCall ==
    /\ ~gop.running
    /\ \E t \in EmbedTexts, m \in ModelOutcomes :
          LET r == GenerateEmbedding(t, embeddings_model, m)
          IN  /\ r.calls = <<>> => m.exc
              /\ gop' = [name |-> "generate_embedding", running |-> FALSE,
                          text |-> t,
                          outcome |-> IF r.calls = <<>> THEN NotCalled ELSE m,
                          calls |-> r.calls, exc |-> r.exc, ret |-> r.ret]
    /\ UNCHANGED embeddings_model

BatchAppendSkipsBlank(embeddings, t, model, m) ==
    IF ~Blank(t)
    THEN Append(embeddings, GenerateEmbedding(t, model, m).ret)
    ELSE embeddings

\* one iteration of the loop of generate_embeddings_batch, lines 59-68
BatchAppend(embeddings, t, model, m) ==
    IF ~Blank(t)
    THEN LET r == GenerateEmbedding(t, model, m)
         IN  IF r.exc THEN Append(embeddings, None)
             ELSE Append(embeddings, r.ret)
    ELSE Append(embeddings, None)

\* f"chunk_{i}"
ChunkId(i) == <<"c", "h", "u", "n", "k", "_">> \o Str(i)

EmbedChunksRenumbers(chunks_, embeddings) ==
    LET n == Min(Len(chunks_), Len(embeddings))
        idx == SelectSeq([k \in 1..n |-> k], LAMBDA k : embeddings[k].some)
    IN  [j \in 1..Len(idx) |->
            [chunk_id |-> ChunkId(j - 1),
             chunk_text |-> chunks_[idx[j]],
             embedding |-> embeddings[idx[j]].v,
             embedding_length |-> Len(embeddings[idx[j]].v),
             chunk_index |-> j - 1]]

\* the result list of embed_chunks, lines 144-155
EmbedChunksResult(chunks_, embeddings) ==
    LET n == Min(Len(chunks_), Len(embeddings))
        idx == SelectSeq([k \in 1..n |-> k], LAMBDA k : embeddings[k].some)
    IN  [j \in 1..Len(idx) |->
            [chunk_id |-> ChunkId(idx[j] - 1),
             chunk_text |-> chunks_[idx[j]],
             embedding |-> embeddings[idx[j]].v,
             embedding_length |-> Len(embeddings[idx[j]].v),
             chunk_index |-> idx[j] - 1]]

\* what a batch call returns once its loop has ended: the list of
\* embeddings (line 70), which embed_chunks turns into its result list
BatchReturn(which, texts, embeddings) ==
    IF which = "embed_chunks" THEN EmbedChunksResult(texts, embeddings)
    ELSE embeddings

\* generate_embeddings_batch or embed_chunks called: lines 55-58, 137-141
BatchBegin ==
    /\ ~gop.running
    /\ \E which \in {"generate_embeddings_batch", "embed_chunks"},
          texts \in TextLists :
          gop' = [name |-> which, running |-> texts # <<>>,
                  texts |-> texts, i |-> 0, embeddings |-> <<>>,
                  outcomes |-> <<>>, calls |-> <<>>, exc |-> FALSE,
                  ret |-> <<>>]
    /\ UNCHANGED embeddings_model

\* the loop of generate_embeddings_batch, one text per step, and after the
\* last text the return of the call
BatchStep ==
    /\ gop.running
    /\ LET t == gop.texts[gop.i + 1]
       IN  \E m \in ModelOutcomes :
             LET r == GenerateEmbedding(t, embeddings_model, m)
                 called == ~Blank(t) /\ r.calls # <<>>
                 e == BatchAppend(gop.embeddings, t, embeddings_model, m)
                 last == gop.i + 1 = Len(gop.texts)
             IN  /\ ~called => m.exc
                 /\ gop' = [gop EXCEPT
                       !.i = @ + 1,
                       !.embeddings = e,
                       !.outcomes = Append(@, IF called THEN m ELSE NotCalled),
                       !.calls = IF Blank(t) THEN @ ELSE @ \o r.calls,
                       !.running = ~last,
                       !.ret = IF last THEN BatchReturn(gop.name, gop.texts, e)
                               ELSE @]
    /\ UNCHANGED embeddings_model

(***************************************************************************)
(* calculate_similarity and find_most_similar.  A similarity is the exact  *)
(* value dot / (norm1 * norm2), kept as sign * sqrt(p / q) in lowest       *)
(* terms, so that equal similarities are equal values.                     *)
(***************************************************************************)
MaxDim == 2
MaxCands == 2

\* the components of a vector
Components == -1..1

Vectors == UNION {[1..n -> Components] : n \in 0..MaxDim}

\* the embeddings of one model: nothing, or a vector of its dimension
Candidates == {v \in Vectors : Len(v) \in {0, MaxDim}}

CandidateLists == UNION {[1..n -> Candidates] : n \in 0..MaxCands}

RECURSIVE GCD(_, _)
GCD(a, b) == IF b = 0 THEN a ELSE GCD(b, a % b)

RECURSIVE Dot(_, _)
Dot(a, b) ==
    IF a = <<>> THEN 0 ELSE Head(a) * Head(b) + Dot(Tail(a), Tail(b))

Zero == [sign |-> 0, p |-> 0, q |-> 1]

\* dot / sqrt(den) for den > 0
Ratio(dot, den) ==
    IF dot = 0 THEN Zero
    ELSE LET g == GCD(dot * dot, den)
         IN  [sign |-> IF dot > 0 THEN 1 ELSE -1,
              p |-> (dot * dot) \div g, q |-> den \div g]

\* x < y
Less(x, y) ==
    IF x.sign # y.sign THEN x.sign < y.sign
    ELSE IF x.sign = 1 THEN x.p * y.q < y.p * x.q
    ELSE IF x.sign = -1 THEN x.p * y.q > y.p * x.q
    ELSE FALSE

\* calculate_similarity, lines 82-98
CalculateSimilarity(embedding1, embedding2) ==
    IF embedding1 = <<>> \/ embedding2 = <<>> \/ Len(embedding1) # Len(embedding2)
    THEN Zero
    ELSE LET dot_product == Dot(embedding1, embedding2)
             norm1 == Dot(embedding1, embedding1)
             norm2 == Dot(embedding2, embedding2)
         IN  IF norm1 = 0 \/ norm2 = 0 THEN Zero
             ELSE Ratio(dot_product, norm1 * norm2)

InsertBeforeEquals(sorted, x) ==
    LET before == {k \in 1..Len(sorted) : Less(x.similarity, sorted[k].similarity)}
        n == Cardinality(before)
    IN  SubSeq(sorted, 1, n) \o <<x>> \o SubSeq(sorted, n + 1, Len(sorted))

\* list.sort(key=similarity, reverse=True), line 125, as it treats one
\* more element: the sort is stable, the element goes behind every element
\* whose similarity is not smaller than its own
Insert(sorted, x) ==
    LET before == {k \in 1..Len(sorted) : ~Less(sorted[k].similarity, x.similarity)}
        n == Cardinality(before)
    IN  SubSeq(sorted, 1, n) \o <<x>> \o SubSeq(sorted, n + 1, Len(sorted))

RECURSIVE SortDescending(_)
SortDescending(similarities) ==
    IF similarities = <<>> THEN <<>>
    ELSE Insert(SortDescending(SubSeq(similarities, 1, Len(similarities) - 1)),
                similarities[Len(similarities)])

\* find_most_similar, lines 112-126
FindMostSimilar(query_embedding, embeddings) ==
    IF query_embedding = <<>> \/ embeddings = <<>> THEN <<>>
    ELSE LET idx == SelectSeq([k \in 1..Len(embeddings) |-> k],
                              LAMBDA k : embeddings[k] # <<>>)
             similarities ==
                [j \in 1..Len(idx) |->
                    [index |-> idx[j] - 1,
                     similarity |-> CalculateSimilarity(query_embedding,
                                                        embeddings[idx[j]])]]
         IN  SortDescending(similarities)

\* calculate_similarity called on a generator; the method reads nothing
\* but its arguments, so one call per behaviour shows all it can do
SimilarityCall ==
    /\ gop = Idle
    /\ \E a \in Vectors, b \in Vectors :
          gop' = [name |-> "calculate_similarity", running |-> FALSE,
                  embedding1 |-> a, embedding2 |-> b, exc |-> FALSE,
                  ret |-> CalculateSimilarity(a, b)]
    /\ UNCHANGED embeddings_model

\* find_most_similar called on a generator
FindMostSimilarCall ==
    /\ gop = Idle
    /\ \E q \in Vectors, e \in CandidateLists :
          gop' = [name |-> "find_most_similar", running |-> FALSE,
                  query_embedding |-> q, embeddings |-> e, exc |-> FALSE,
                  ret |-> FindMostSimilar(q, e)]
    /\ UNCHANGED embeddings_model

InitEmbed ==
    /\ embeddings_model \in BOOLEAN
    /\ gop = Idle
    /\ RagIdle /\ SplitIdle /\ EngineIdle /\ BookIdle /\ CiteIdle
    /\ ParaIdle /\ ConcIdle /\ LimitIdle /\ SessionIdle

NextEmbed ==
    \/ GenerateEmbeddingCall /\ UNCHANGED <<ragVars, splitVars, engineVars, bookVars, citeVars,
                 paraVars, concVars, limitVars, sessionVars>>
    \/ BatchBegin /\ UNCHANGED <<ragVars, splitVars, engineVars, bookVars, citeVars,
                 paraVars, concVars, limitVars, sessionVars>>
    \/ BatchStep /\ UNCHANGED <<ragVars, splitVars, engineVars, bookVars, citeVars,
                 paraVars, concVars, limitVars, sessionVars>>

SpecEmbed == InitEmbed /\ [][NextEmbed]_vars

NextSim ==
    \/ SimilarityCall /\ UNCHANGED <<ragVars, splitVars, engineVars, bookVars, citeVars,
                 paraVars, concVars, limitVars, sessionVars>>
    \/ FindMostSimilarCall /\ UNCHANGED <<ragVars, splitVars, engineVars, bookVars, citeVars,
                 paraVars, concVars, limitVars, sessionVars>>

SpecSim == InitEmbed /\ [][NextSim]_vars


(***************************************************************************)
(* CitationService (citation_service.py).  A dictionary is a function from *)
(* its keys to values; a value is None, a string or an integer, and an     *)
(* f-string formats it as Python does.                                     *)
(***************************************************************************)
MaxResults == 2

NoneV == [kind |-> "none", s |-> <<>>, n |-> 0]

StrV(s) == [kind |-> "str", s |-> s, n |-> 0]

IntV(n) == [kind |-> "int", s |-> <<>>, n |-> n]

\* format(v) inside an f-string
Format(v) ==
    IF v.kind = "none" THEN <<"N", "o", "n", "e">>
    ELSE IF v.kind = "int" THEN Str(v.n)
    ELSE v.s

\* bool(v)
Truthy(v) == (v.kind = "str" /\ v.s # <<>>) \/ (v.kind = "int" /\ v.n # 0)

\* dict.get(key, default)
Get(d, key, default) == IF key \in DOMAIN d THEN d[key] ELSE default

\* every dictionary with some of the keys, each key with one of its values
DictsOf(values) ==
    {d \in UNION {[keys -> UNION {values[k] : k \in keys}] :
                     keys \in SUBSET DOMAIN values} :
        \A k \in DOMAIN d : d[k] \in values[k]}

\* sep.join(parts)
RECURSIVE Join(_, _)
Join(parts, sep) ==
    IF parts = <<>> THEN <<>>
    ELSE IF Len(parts) = 1 THEN parts[1]
    ELSE parts[1] \o sep \o Join(Tail(parts), sep)

\* f'"{v}"'
Quoted(v) == <<"\"">> \o Format(v) \o <<"\"">>

\* ". ".join(citation_parts) + "."
Finish(citation_parts) == Join(citation_parts, <<".", " ">>) \o <<".">>

\* _format_search_citation, lines 52-69
FormatSearchCitation(book_info, page_number, section_title, chapter) ==
    LET title == Get(book_info, "title", StrV(<<"U", "n", "k", "n", "o", "w", "n", " ", "T", "i", "t", "l", "e">>))
        author == Get(book_info, "author", StrV(<<"U", "n", "k", "n", "o", "w", "n", " ", "A", "u", "t", "h", "o", "r">>))
        year == Get(book_info, "year", StrV(<<"n", ".", "d", ".">>))
    IN  Finish(<<Format(author) \o <<" ", "(">> \o Format(year) \o <<")">>>>
               \o (IF Truthy(chapter) THEN <<<<"C", "h", "a", "p", "t", "e", "r", " ">> \o Format(chapter)>> ELSE <<>>)
               \o (IF Truthy(section_title) THEN <<Quoted(section_title)>> ELSE <<>>)
               \o (IF Truthy(page_number) THEN <<<<"p", ".", " ">> \o Format(page_number)>> ELSE <<>>)
               \o <<<<"B", "o", "o", "k", ":", " ">> \o Format(title)>>)

\* _format_explanation_citation, lines 75-86
FormatExplanationCitation(book_info, page_number, section_title) ==
    LET title == Get(book_info, "title", StrV(<<"U", "n", "k", "n", "o", "w", "n", " ", "T", "i", "t", "l", "e">>))
        author == Get(book_info, "author", StrV(<<"U", "n", "k", "n", "o", "w", "n", " ", "A", "u", "t", "h", "o", "r">>))
    IN  Finish(<<<<"F", "r", "o", "m", ":", " ">> \o Format(title) \o <<" ", "b", "y", " ">> \o Format(author)>>
               \o (IF Truthy(section_title)
                   THEN <<<<"S", "e", "c", "t", "i", "o", "n", ":", " ">> \o Quoted(section_title)>> ELSE <<>>)
               \o (IF Truthy(page_number)
                   THEN <<<<"P", "a", "g", "e", ":", " ">> \o Format(page_number)>> ELSE <<>>))

\* _format_summary_citation, lines 92-102
FormatSummaryCitation(book_info, page_number, section_title) ==
    LET title == Get(book_info, "title", StrV(<<"U", "n", "k", "n", "o", "w", "n", " ", "T", "i", "t", "l", "e">>))
    IN  Finish(<<<<"S", "o", "u", "r", "c", "e", ":", " ">> \o Format(title)>>
               \o (IF Truthy(section_title)
                   THEN <<<<"T", "o", "p", "i", "c", ":", " ">> \o Quoted(section_title)>> ELSE <<>>)
               \o (IF Truthy(page_number)
                   THEN <<<<"L", "o", "c", "a", "t", "e", "d", " ", "a", "t", " ", "p", "a", "g", "e", " ">> \o Format(page_number)>> ELSE <<>>))

\* _format_general_citation, lines 108-119
FormatGeneralCitation(book_info, page_number, section_title) ==
    LET title == Get(book_info, "title", StrV(<<"U", "n", "k", "n", "o", "w", "n", " ", "T", "i", "t", "l", "e">>))
        author == Get(book_info, "author", StrV(<<"U", "n", "k", "n", "o", "w", "n", " ", "A", "u", "t", "h", "o", "r">>))
    IN  Finish(<<Format(author) \o <<".", " ">> \o Format(title)>>
               \o (IF Truthy(section_title)
                   THEN <<<<"S", "e", "c", "t", "i", "o", "n", ":", " ">> \o Quoted(section_title)>> ELSE <<>>)
               \o (IF Truthy(page_number)
                   THEN <<<<"P", "a", "g", "e", " ">> \o Format(page_number)>> ELSE <<>>))

\* generate_citation, lines 32-45
GenerateCitation(content_chunk, book_info, context) ==
    LET page_number == Get(content_chunk, "page_number",
                           Get(content_chunk, "page_num", NoneV))
        section_title == Get(content_chunk, "section_title",
                             Get(content_chunk, "section", StrV(<<>>)))
        chapter == Get(content_chunk, "chapter", StrV(<<>>))
    IN  IF context = "search_result"
        THEN FormatSearchCitation(book_info, page_number, section_title, chapter)
        ELSE IF context = "explanation"
        THEN FormatExplanationCitation(book_info, page_number, section_title)
        ELSE IF context = "summary"
        THEN FormatSummaryCitation(book_info, page_number, section_title)
        ELSE FormatGeneralCitation(book_info, page_number, section_title)

\* the contexts named by generate_citation and one it does not name
Contexts == {"search_result", "explanation", "summary", "other"}

\* content chunks: each key is missing, None or set
ChunkValues ==
    [page_number |-> {NoneV, IntV(7)},
     page_num |-> {IntV(8)},
     section_title |-> {NoneV, StrV(<<"Z">>)},
     chapter |-> {NoneV, StrV(<<"X">>)}]

ContentChunks == DictsOf(ChunkValues)

BookValues ==
    [title |-> {StrV(<<"W">>)},
     author |-> {NoneV, StrV(<<"Q">>)},
     year |-> {NoneV, IntV(1999)}]

BookInfos == DictsOf(BookValues)

\* search results as search_similar_content builds them: page_number and
\* section_title are always keys, each None or set; chapter may be added
ResultValues ==
    [page_number |-> {NoneV, IntV(7)},
     section_title |-> {NoneV, StrV(<<"Z">>)},
     chapter |-> {StrV(<<"X">>)}]

Results ==
    {d \in DictsOf(ResultValues) : {"page_number", "section_title"} \subseteq DOMAIN d}

ResultLists == UNION {[1..n -> Results] : n \in 0..MaxResults}

\* dict with d[key] = value set
SetItem(d, key, value) ==
    [k \in (DOMAIN d) \cup {key} |-> IF k = key THEN value ELSE d[k]]

FormatResultInPlace(result, book_info, context, i) ==
    LET citation == GenerateCitation(result, book_info, context)
        formatted_result ==
            SetItem(SetItem(result, "citation", StrV(citation)),
                    "citation_order", IntV(i + 1))
    IN  [formatted_result |-> formatted_result, result |-> formatted_result]

\* one iteration of the loop of format_multiple_citations, lines 182-193:
\* the entry appended and the input record as the iteration leaves it
FormatResult(result, book_info, context, i) ==
    LET citation == GenerateCitation(result, book_info, context)
        formatted_result ==
            SetItem(SetItem(result, "citation", StrV(citation)),
                    "citation_order", IntV(i + 1))
    IN  [formatted_result |-> formatted_result, result |-> result]

\* format_multiple_citations, lines 180-195
FormatMultipleCitations(results, book_info, context) ==
    [ret |-> [k \in 1..Len(results) |->
                FormatResult(results[k], book_info, context, k - 1).formatted_result],
     results |-> [k \in 1..Len(results) |->
                FormatResult(results[k], book_info, context, k - 1).result],
     book_info |-> book_info]

\* generate_citation called on the service; the method reads nothing but
\* its arguments, so one call per behaviour shows all it can do
GenerateCitationCall ==
    /\ cop = Idle
    /\ \E c \in ContentChunks, b \in BookInfos, x \in Contexts :
          cop' = [name |-> "generate_citation", running |-> FALSE,
                  content_chunk |-> c, book_info |-> b, context |-> x,
                  ret |-> GenerateCitation(c, b, x)]

\* format_multiple_citations called on the service
FormatMultipleCitationsCall ==
    /\ cop = Idle
    /\ \E rs \in ResultLists, b \in BookInfos, x \in Contexts :
          LET r == FormatMultipleCitations(rs, b, x)
          IN  cop' = [name |-> "format_multiple_citations", running |-> FALSE,
                      args |-> [results |-> rs, book_info |-> b, context |-> x],
                      results |-> r.results, book_info |-> r.book_info,
                      ret |-> r.ret]

InitCite ==
    /\ cop = Idle
    /\ RagIdle /\ SplitIdle /\ EngineIdle /\ BookIdle /\ EmbedIdle
    /\ ParaIdle /\ ConcIdle /\ LimitIdle /\ SessionIdle

NextCite ==
    \/ GenerateCitationCall /\ UNCHANGED <<ragVars, splitVars, engineVars, bookVars, embedVars,
                 paraVars, concVars, limitVars, sessionVars>>
    \/ FormatMultipleCitationsCall /\ UNCHANGED <<ragVars, splitVars, engineVars, bookVars, embedVars,
                 paraVars, concVars, limitVars, sessionVars>>

SpecCite == InitCite /\ [][NextCite]_vars

\* sub occurs in s
Contains(s, sub) ==
    \E i \in 1..(Len(s) - Len(sub) + 1) : SubSeq(s, i, i + Len(sub) - 1) = sub

Placeholders == {<<"N", "o", "n", "e">>, <<"n", ".", "d", ".">>, <<"U", "n", "k", "n", "o", "w", "n">>}

\* the value a citation has for a field, None when the field is missing
FieldValue(field, content_chunk, book_info) ==
    IF field \in {"author", "year"} THEN Get(book_info, field, NoneV)
    ELSE IF field = "page_number"
    THEN Get(content_chunk, "page_number", Get(content_chunk, "page_num", NoneV))
    ELSE Get(content_chunk, field, NoneV)

CitationFields == {"author", "year", "chapter", "section_title", "page_number"}

\* the words a citation puts before a field
FieldLabels(field) ==
    IF field = "chapter" THEN {<<"C", "h", "a", "p", "t", "e", "r">>}
    ELSE IF field = "section_title" THEN {<<"\"">>}
    ELSE IF field = "page_number" THEN {<<"p", ".", " ">>, <<"P", "a", "g", "e">>, <<"p", "a", "g", "e">>}
    ELSE {}

\* C12: citation completeness by omission.  In each of the contexts
\* search_result, explanation and summary, a field (author, year, chapter,
\* section title, page number) that is missing or None leaves no text in
\* the citation, the citation never contains "None", "n.d." or "Unknown",
\* and every field that is present appears in it.
C12_CitationOmitsAbsentFields ==
    (cop.name = "generate_citation"
        /\ cop.context \in {"search_result", "explanation", "summary"}) =>
        /\ \A ph \in Placeholders : ~Contains(cop.ret, ph)
        /\ \A f \in CitationFields :
              LET v == FieldValue(f, cop.content_chunk, cop.book_info)
              IN  IF v = NoneV
                  THEN \A l \in FieldLabels(f) : ~Contains(cop.ret, l)
                  ELSE Contains(cop.ret, Format(v))

\* d without the keys citation and citation_order
WithoutCitation(d) == [k \in (DOMAIN d) \ {"citation", "citation_order"} |-> d[k]]

\* C20: format_multiple_citations returns a list as long as results whose
\* element i is results[i] extended with citation =
\* generate_citation(results[i], book_info, context) and citation_order =
\* i + 1; the input records and book_info are left unchanged.
C20_CitationsAnnotateInOrder ==
    cop.name = "format_multiple_citations" =>
        /\ Len(cop.ret) = Len(cop.args.results)
        /\ \A k \in 1..Len(cop.ret) :
              /\ WithoutCitation(cop.ret[k]) = cop.args.results[k]
              /\ DOMAIN cop.ret[k] =
                    (DOMAIN cop.args.results[k]) \cup {"citation", "citation_order"}
              /\ cop.ret[k]["citation"] =
                    StrV(GenerateCitation(cop.args.results[k], cop.args.book_info,
                                          cop.args.context))
              /\ cop.ret[k]["citation_order"] = IntV(k)
        /\ cop.results = cop.args.results
        /\ cop.book_info = cop.args.book_info

\* two results that differ, cited in the order given
C20_Witness ==
    /\ cop.name = "format_multiple_citations"
    /\ Len(cop.ret) = 2
    /\ cop.args.results[1] # cop.args.results[2]
    /\ cop.ret[1]["citation"] # cop.ret[2]["citation"]
    /\ cop.ret[2]["citation_order"] = IntV(2)
    /\ cop.results = cop.args.results

(***************************************************************************)
(* _split_text on texts longer than one chunk, with windows wide enough    *)
(* to hold two separators in the range searched.                           *)
(***************************************************************************)
InitCut ==
    /\ text \in [1..(MaxLen + 1) -> Alphabet]
    /\ chunk_size = MaxSize + 2
    /\ overlap \in 0..(MaxSize + 1)
    /\ start = 0 /\ chunks = <<>> /\ windows = <<>> /\ spc = "call"
    /\ RagIdle /\ EngineIdle /\ BookIdle /\ EmbedIdle /\ CiteIdle
    /\ ParaIdle /\ ConcIdle /\ LimitIdle /\ SessionIdle

SpecCut == InitCut /\ [][NextSplit]_vars

\* the offsets at which sep lies wholly inside text[lo:hi]
Occurrences(s, sep, lo, hi) ==
    {q \in Max(lo, 0)..(hi - Len(sep)) : SubSeq(s, q + 1, q + Len(sep)) = sep}

\* the separators that end a sentence
SentenceSeps == {Seps[j] : j \in 1..4}

\* C13: boundary-aware cutting (for an overlap smaller than the chunk
\* size).  For every window [start, start + chunk_size) that does not reach
\* the end of the text: if a marker occurs within [window_end - overlap,
\* window_end], the chunk is cut right after the last occurrence of the
\* highest-priority marker present there, and never before a sentence end
\* that lies in that range; if no marker occurs there, the cut is at
\* start + chunk_size.
C13_BoundaryAwareCutting ==
    overlap < chunk_size =>
      \A k \in 1..Len(windows) :
        LET window_end == windows[k][1] + chunk_size
            cut == windows[k][2]
            lo == window_end - overlap
            present == {j \in 1..Len(Seps) :
                           Occurrences(text, Seps[j], lo, window_end) # {}}
        IN  window_end < Len(text) =>
              IF present # {}
              THEN LET j == CHOOSE x \in present : \A y \in present : x <= y
                       occ == Occurrences(text, Seps[j], lo, window_end)
                       last == CHOOSE q \in occ : \A r \in occ : r <= q
                   IN  /\ cut = last + Len(Seps[j])
                       /\ \A sep \in SentenceSeps :
                             \A q \in Occurrences(text, sep, lo, window_end) :
                                cut >= q + Len(sep)
              ELSE cut = window_end

\* C15 as stated: every relevance_score of search_similar_content is
\* 1 - distance, and for every cosine distance in [0,2] it is a similarity
\* in [0,1].
C15_RelevanceIsSimilarity ==
    (eop.name = "search" /\ ~eop.exc) =>
        \A k \in 1..Len(eop.ret) :
            /\ eop.ret[k].relevance_score = 1 - eop.ret[k].distance
            /\ eop.ret[k].distance \in Distances =>
                  (0 <= eop.ret[k].relevance_score /\ eop.ret[k].relevance_score <= 1)

\* C15 amended: every relevance_score of search_similar_content is
\* 1 - distance; for every cosine distance in [0,2] it lies in [-1,1], and
\* it lies in [0,1] exactly when the distance is at most 1.
C15_RelevanceIsOneMinusDistance ==
    (eop.name = "search" /\ ~eop.exc) =>
        \A k \in 1..Len(eop.ret) :
            /\ eop.ret[k].relevance_score = 1 - eop.ret[k].distance
            /\ eop.ret[k].distance \in Distances =>
                  /\ -1 <= eop.ret[k].relevance_score
                  /\ eop.ret[k].relevance_score <= 1
                  /\ (0 <= eop.ret[k].relevance_score) <=> (eop.ret[k].distance <= 1)

\* a search that returns two results, one at distance 0 and one at
\* distance 2
C15_Witness ==
    /\ eop.name = "search" /\ ~eop.exc
    /\ Len(eop.ret) = 2
    /\ eop.ret[1].distance = 0 /\ eop.ret[1].relevance_score = 1
    /\ eop.ret[2].distance = 2 /\ eop.ret[2].relevance_score = -1

\* C11: soft failure at every embedding call site.  When the embedding
\* service raises during search_similar_content,
\* add_book_content_to_index or generate_embedding, the operation returns
\* its sentinel (an empty list, no chunk indexed, None) and no exception
\* reaches the caller.
C11_EmbeddingFailureIsSoft ==
    /\ (eop.name \in {"search", "index"} /\ eop.embed = "raise") =>
          /\ ~eop.exc
          /\ eop.name = "search" => eop.ret = <<>>
          /\ eop.name = "index" => eop.indexed_chunks = 0
    /\ (gop.name = "generate_embedding" /\ gop.outcome.exc) =>
          ~gop.exc /\ ~gop.ret.some

(***************************************************************************)
(* The queries of the pipeline over a store that holds one ingested        *)
(* document, and generate_embedding, each call with the calls it makes.    *)
(***************************************************************************)
RECURSIVE Ingested(_, _, _, _)
Ingested(coll, d, cs, i) ==
    IF i = Len(cs) THEN coll
    ELSE Ingested(AddDocument(coll, ChunkDocId(d, i), cs[i + 1],
                              SomeMetadata, "upsert").collection, d, cs, i + 1)

\* the stores a successful add_document_to_rag leaves behind
IngestedCollections ==
    {Ingested(EmptyCollection, d, cs, 0) : d \in DocIds, cs \in ChunkLists}

InitCalls ==
    /\ collection \in IngestedCollections
    /\ op = Idle
    /\ embeddings_model \in BOOLEAN
    /\ gop = Idle
    /\ SplitIdle /\ EngineIdle /\ BookIdle /\ CiteIdle
    /\ ParaIdle /\ ConcIdle /\ LimitIdle /\ SessionIdle

NextCalls ==
    \/ Query /\ UNCHANGED <<splitVars, engineVars, bookVars, embedVars, citeVars,
                 paraVars, concVars, limitVars, sessionVars>>
    \/ GenerateEmbeddingCall /\ UNCHANGED <<ragVars, splitVars, engineVars, bookVars, citeVars,
                 paraVars, concVars, limitVars, sessionVars>>

SpecCalls == InitCalls /\ [][NextCalls]_vars

\* C14: calculate_similarity is symmetric, its result lies in [0,1], and it
\* is exactly 0.0, without an exception, when a vector is empty or the two
\* lengths differ.
C14_SimilaritySymmetricInUnitInterval ==
    gop.name = "calculate_similarity" =>
        /\ ~gop.exc
        /\ gop.ret = CalculateSimilarity(gop.embedding2, gop.embedding1)
        /\ gop.ret.sign >= 0 /\ gop.ret.p <= gop.ret.q
        /\ (gop.embedding1 = <<>> \/ gop.embedding2 = <<>>
              \/ Len(gop.embedding1) # Len(gop.embedding2)) => gop.ret = Zero

\* the positions, counted from 0, of the non-empty candidates
NonEmptyPositions(embeddings) ==
    {k - 1 : k \in {j \in 1..Len(embeddings) : embeddings[j] # <<>>}}

\* ret holds one entry per non-empty candidate, by position in the input,
\* sorted by similarity in descending order, ties in ascending index order
RankedStably(query_embedding, embeddings, ret) ==
    /\ Len(ret) = Cardinality(NonEmptyPositions(embeddings))
    /\ {ret[j].index : j \in 1..Len(ret)} = NonEmptyPositions(embeddings)
    /\ \A j \in 1..Len(ret) :
          ret[j].similarity =
              CalculateSimilarity(query_embedding, embeddings[ret[j].index + 1])
    /\ \A i \in 1..Len(ret), j \in 1..Len(ret) :
          i < j =>
             /\ ~Less(ret[i].similarity, ret[j].similarity)
             /\ ret[i].similarity = ret[j].similarity =>
                   ret[i].index < ret[j].index

\* C16 as stated: ranking stability for every query vector and candidate
\* list: find_most_similar returns one entry per non-empty candidate, its
\* index the candidate's position, sorted by similarity in descending
\* order, equal similarities in ascending index order.
C16_RankingForEveryQuery ==
    gop.name = "find_most_similar" =>
        RankedStably(gop.query_embedding, gop.embeddings, gop.ret)

\* C16 amended: the same for every non-empty query vector; for an empty
\* query vector find_most_similar returns the empty list.
C16_RankingStability ==
    gop.name = "find_most_similar" =>
        IF gop.query_embedding = <<>> THEN gop.ret = <<>>
        ELSE RankedStably(gop.query_embedding, gop.embeddings, gop.ret)

\* two candidates of equal, positive similarity to the query, the second
\* of them between the first and the query in the input order of ties
C16_Witness ==
    /\ gop.name = "find_most_similar"
    /\ Len(gop.ret) = 2
    /\ gop.embeddings[1] # gop.embeddings[2]
    /\ gop.ret[1].similarity = gop.ret[2].similarity
    /\ gop.ret[1].similarity.sign = 1
    /\ gop.ret[1].index = 0 /\ gop.ret[2].index = 1

\* item k of a batch succeeds: its text is not blank, the model is
\* configured and its call of the model answers
Succeeds(k) ==
    /\ ~Blank(gop.texts[k])
    /\ embeddings_model
    /\ gop.outcomes[k] # NotCalled /\ ~gop.outcomes[k].exc

\* C17: graceful degradation of embed_chunks.  Whichever chunks fail to
\* embed (the model raises, the text is blank, the model is not
\* configured), embed_chunks does not raise and returns exactly the chunks
\* whose embedding succeeded, in input order, each with chunk_index its
\* position in the input and the embedding generated for that chunk.
C17_EmbedChunksDegrades ==
    (gop.name = "embed_chunks" /\ ~gop.running) =>
        /\ ~gop.exc
        /\ {gop.ret[j].chunk_index + 1 : j \in 1..Len(gop.ret)} =
              {k \in 1..Len(gop.texts) : Succeeds(k)}
        /\ \A i \in 1..Len(gop.ret), j \in 1..Len(gop.ret) :
              i < j => gop.ret[i].chunk_index < gop.ret[j].chunk_index
        /\ \A j \in 1..Len(gop.ret) :
              LET k == gop.ret[j].chunk_index + 1
              IN  /\ gop.ret[j].chunk_text = gop.texts[k]
                  /\ gop.ret[j].embedding = gop.outcomes[k].v
                  /\ gop.ret[j].chunk_id = ChunkId(k - 1)

\* three chunks, the first fails because the model raises, the others
\* are returned with the indices 1 and 2
C17_Witness ==
    /\ gop.name = "embed_chunks" /\ ~gop.running
    /\ Len(gop.texts) = 3
    /\ gop.outcomes[1].exc
    /\ Len(gop.ret) = 2
    /\ gop.ret[1].chunk_index = 1 /\ gop.ret[2].chunk_index = 2

\* C18: generate_embeddings_batch preserves length and order, item by
\* item.  The output has len(texts) elements; element i is None exactly
\* when texts[i] is blank or its embedding call failed, and otherwise the
\* embedding of texts[i], whatever happened to the other items.
C18_BatchPreservesLengthAndOrder ==
    (gop.name = "generate_embeddings_batch" /\ ~gop.running) =>
        /\ Len(gop.ret) = Len(gop.texts)
        /\ \A k \in 1..Len(gop.texts) :
              IF Succeeds(k) THEN gop.ret[k] = Some(gop.outcomes[k].v)
              ELSE gop.ret[k] = None

\* a blank text, a text whose call raises and a text that is embedded
C18_Witness ==
    /\ gop.name = "generate_embeddings_batch" /\ ~gop.running
    /\ Len(gop.texts) = 3
    /\ Blank(gop.texts[1]) /\ gop.outcomes[2].exc /\ gop.ret[3].some
    /\ gop.ret[1] = None /\ gop.ret[2] = None

\* C19: no retries, fixed call order.  Within one query vector_store.search
\* is invoked exactly once and generate_content at most once and only
\* after the search; within one generate_embedding the model is invoked at
\* most once; a call that failed is not repeated.
C19_NoRetries ==
    /\ op.name \in Queries =>
          /\ op.calls \in {<<"search">>, <<"search", "generate_content">>}
          /\ op.gen_calls = Len(op.calls) - 1
          /\ (op.search.exc \/ op.search.value = <<>>) => op.calls = <<"search">>
    /\ gop.name = "generate_embedding" => Len(gop.calls) <= 1

\* a query whose generation raised and a generate_embedding whose model
\* call raised, each made once
C19_Witness ==
    /\ op.name \in Queries /\ op.generation = "raise"
    /\ op.calls = <<"search", "generate_content">>
    /\ gop.name = "generate_embedding" /\ gop.outcome.exc
    /\ gop.calls = <<gop.text>>


\* C21: not-found is an empty result.  search_similar_content for a book
\* whose collection book_{book_id} does not exist returns [] without
\* raising, without calling the embedding service and without creating the
\* collection: the set of collections is unchanged.
C21_NotFoundIsEmptyResult ==
    [][(eop'.name = "search" /\ eop' # eop
          /\ CollectionName(eop'.book_id) \notin DOMAIN collections) =>
            /\ collections' = collections
            /\ eop'.ret = <<>> /\ ~eop'.exc
            /\ eop'.embed_calls = 0 /\ eop'.embed = "not called"]_vars

\* a search in a book never indexed, while another book is indexed
C21_Witness ==
    /\ eop.name = "search" /\ eop.ret = <<>> /\ ~eop.exc /\ eop.embed_calls = 0
    /\ CollectionName(eop.book_id) \notin DOMAIN collections
    /\ DOMAIN collections # {}


(***************************************************************************)
(* TextChunker.chunk_by_paragraphs (backend/src/rag/chunker.py).           *)
(***************************************************************************)
MaxParaLen == 7
MaxParaSize == 3

ParaAlphabet == {"a", " ", "\n", "\r"}

ParaTexts == UNION {[1..k -> ParaAlphabet] : k \in 0..MaxParaLen}

\* the last index of the run of \s characters that starts at index i
\* (i - 1 when s[i] is not whitespace)
RECURSIVE WsRunEnd(_, _)
WsRunEnd(s, i) ==
    IF i <= Len(s) /\ s[i] \in Whitespace THEN WsRunEnd(s, i + 1) ELSE i - 1

\* line 70: the index at which a match of \n\s*\n|\r\n\s*\r\n that begins
\* at index i ends, 0 when there is none; \s* is greedy, so the match ends
\* at the last place the closing \n (or \r\n) fits
SeparatorEnd(s, i) ==
    IF s[i] = "\n"
    THEN LET ends == {j \in (i + 1)..WsRunEnd(s, i + 1) : s[j] = "\n"}
         IN  IF ends = {} THEN 0 ELSE CHOOSE j \in ends : \A k \in ends : k <= j
    ELSE IF s[i] = "\r" /\ i + 1 <= Len(s) /\ s[i + 1] = "\n"
    THEN LET ends == {j \in (i + 3)..WsRunEnd(s, i + 2) :
                          s[j - 1] = "\r" /\ s[j] = "\n"}
         IN  IF ends = {} THEN 0 ELSE CHOOSE j \in ends : \A k \in ends : k <= j
    ELSE 0

\* line 70: re.split(r'\n\s*\n|\r\n\s*\r\n', text)
RECURSIVE ReSplit(_)
ReSplit(s) ==
    LET starts == {i \in 1..Len(s) : SeparatorEnd(s, i) # 0}
    IN  IF starts = {} THEN <<s>>
        ELSE LET i == CHOOSE x \in starts : \A y \in starts : x <= y
             IN  <<SubSeq(s, 1, i - 1)>>
                   \o ReSplit(SubSeq(s, SeparatorEnd(s, i) + 1, Len(s)))

\* f"para_chunk_{chunk_index}"
ParaChunkId(chunk_index) ==
    <<"p", "a", "r", "a", "_", "c", "h", "u", "n", "k", "_">> \o Str(chunk_index)

\* lines 81 and 92-95: one (text, metadata) pair of the result, metadata=None
ParaChunk(current_chunk, chunk_index) ==
    [text |-> Strip(current_chunk),
     chunk_id |-> ParaChunkId(chunk_index), chunk_index |-> chunk_index]

ParaFlushesOnEmptyBuffer(current_chunk, paragraph, size) ==
    Len(current_chunk) + Len(paragraph) > size

\* line 79: len(current_chunk) + len(paragraph) > self.chunk_size and current_chunk
ParaFlushes(current_chunk, paragraph, size) ==
    Len(current_chunk) + Len(paragraph) > size /\ current_chunk # <<>>

\* lines 70-75
ParaEnter ==
    /\ pop = Idle
    /\ \E t \in ParaTexts, size \in 1..MaxParaSize :
          pop' = [name |-> "chunk_by_paragraphs", running |-> TRUE,
                  text |-> t, chunk_size |-> size,
                  paragraphs |-> ReSplit(t), para_idx |-> 0,
                  current_chunk |-> <<>>, chunk_index |-> 0,
                  result |-> <<>>]

\* lines 77-87: one iteration of the loop over the paragraphs
ParaStep ==
    /\ pop.running /\ pop.name = "chunk_by_paragraphs"
    /\ pop.para_idx < Len(pop.paragraphs)
    /\ LET paragraph == pop.paragraphs[pop.para_idx + 1]
       IN  IF ParaFlushes(pop.current_chunk, paragraph, pop.chunk_size)
           THEN pop' = [pop EXCEPT
                          !.result = Append(@, ParaChunk(pop.current_chunk,
                                                        pop.chunk_index)),
                          !.chunk_index = @ + 1,
                          !.current_chunk = paragraph,
                          !.para_idx = @ + 1]
           ELSE pop' = [pop EXCEPT
                          !.current_chunk =
                              IF @ # <<>> THEN @ \o <<"\n", "\n">> \o paragraph
                              ELSE paragraph,
                          !.para_idx = @ + 1]

\* lines 89-96: the final chunk, if it has content, and the return
ParaReturn ==
    /\ pop.running /\ pop.name = "chunk_by_paragraphs"
    /\ pop.para_idx = Len(pop.paragraphs)
    /\ pop' = [pop EXCEPT
                 !.result = IF Strip(pop.current_chunk) # <<>>
                            THEN Append(@, ParaChunk(pop.current_chunk,
                                                     pop.chunk_index))
                            ELSE @,
                 !.running = FALSE]

InitPara ==
    /\ pop = Idle
    /\ RagIdle /\ SplitIdle /\ EngineIdle /\ BookIdle /\ EmbedIdle /\ CiteIdle
    /\ ConcIdle /\ LimitIdle /\ SessionIdle

NextPara ==
    \/ ParaEnter /\ UNCHANGED <<ragVars, splitVars, engineVars, bookVars, embedVars,
                 citeVars, concVars, limitVars, sessionVars>>
    \/ ParaStep /\ UNCHANGED <<ragVars, splitVars, engineVars, bookVars, embedVars,
                 citeVars, concVars, limitVars, sessionVars>>
    \/ ParaReturn /\ UNCHANGED <<ragVars, splitVars, engineVars, bookVars, embedVars,
                 citeVars, concVars, limitVars, sessionVars>>

SpecPara == InitPara /\ [][NextPara]_vars

\* the paragraphs of the returned chunks, in the order of the chunks
RECURSIVE ParagraphsOfChunks(_)
ParagraphsOfChunks(result) ==
    IF result = <<>> THEN <<>>
    ELSE ReSplit(result[1].text) \o ParagraphsOfChunks(Tail(result))

NotBlank(p) == p # <<>>

\* the paragraphs that have content, without the whitespace around them
Trimmed(paragraphs) ==
    SelectSeq([k \in 1..Len(paragraphs) |-> Strip(paragraphs[k])], NotBlank)

\* a loop iteration starts a new chunk exactly when the buffer is non-empty
\* and len(buffer) + len(next paragraph) > chunk_size
ParaFlushRule ==
    (pop.name = "chunk_by_paragraphs" /\ pop.running
       /\ pop.para_idx < Len(pop.paragraphs)) =>
        (Len(pop'.result) = Len(pop.result) + 1
           <=> /\ pop.current_chunk # <<>>
               /\ Len(pop.current_chunk)
                    + Len(pop.paragraphs[pop.para_idx + 1]) > pop.chunk_size)

\* the chunk_index values of the returned list are 0..n-1 in order
ParaIndexed ==
    (pop'.name = "chunk_by_paragraphs" /\ ~pop'.running) =>
        \A k \in 1..Len(pop'.result) :
            /\ pop'.result[k].chunk_index = k - 1
            /\ pop'.result[k].chunk_id = ParaChunkId(k - 1)

\* C22 as stated: chunk_by_paragraphs never splits a paragraph.  For every
\* text, each blank-line-separated paragraph appears intact in exactly one
\* returned chunk and the paragraphs keep their order across the chunks
\* (the paragraphs of the chunks, chunk after chunk, are the paragraphs of
\* the text); a new chunk is started exactly when the buffer is non-empty
\* and len(buffer) + len(next paragraph) > chunk_size; the chunk_index
\* values are 0..n-1 in order.
C22_EveryParagraphIntact ==
    [][/\ ParaFlushRule
       /\ ParaIndexed
       /\ (pop'.name = "chunk_by_paragraphs" /\ ~pop'.running) =>
             ParagraphsOfChunks(pop'.result) = ReSplit(pop'.text)]_vars

\* C22, amended: the same for every paragraph that is not blank, up to the
\* whitespace at its ends (each chunk is trimmed; a blank paragraph leaves
\* no trace, and a text of blank paragraphs returns no chunk).
C22_NonBlankParagraphsIntact ==
    [][/\ ParaFlushRule
       /\ ParaIndexed
       /\ (pop'.name = "chunk_by_paragraphs" /\ ~pop'.running) =>
             Trimmed(ParagraphsOfChunks(pop'.result))
               = Trimmed(ReSplit(pop'.text))]_vars

\* three paragraphs, the first two share a chunk and the third was flushed
\* into a second one
C22_Witness ==
    /\ pop.name = "chunk_by_paragraphs" /\ ~pop.running
    /\ Len(Trimmed(pop.paragraphs)) >= 2
    /\ Len(pop.result) = 2
    /\ \E k \in 1..2 : Len(ReSplit(pop.result[k].text)) = 2


\* C23: _split_text terminates and makes progress.  For every text and
\* every chunk_size, overlap with 0 <= overlap < chunk_size, stepping back
\* by overlap never moves start to or below its value at the beginning of
\* the iteration: each loop iteration strictly increases start (so the
\* loop ends after finitely many iterations).
C23_EachIterationAdvancesStart ==
    [][(spc = "loop" /\ overlap < chunk_size /\ windows' # windows) =>
          start' > start]_vars


\* C24: for every text, chunk_size and overlap, no element of the list
\* returned by _split_text is empty or whitespace-only, also when
\* len(text) <= chunk_size.
C24_NoBlankChunkReturned ==
    spc = "done" => \A k \in 1..Len(chunks) : Strip(chunks[k]) # <<>>


\* C25: chunk size bound.  For every text and 0 <= overlap < chunk_size,
\* every chunk returned by _split_text has at most chunk_size characters,
\* and the window of each chunk after the first begins at most overlap
\* characters before the end of its predecessor's window (and not after it).
C25_ChunkSizeBound ==
    overlap < chunk_size =>
        /\ \A k \in 1..Len(chunks) : Len(chunks[k]) <= chunk_size
        /\ \A k \in 1..(Len(windows) - 1) :
              /\ windows[k + 1][1] >= windows[k][2] - overlap
              /\ windows[k + 1][1] <= windows[k][2]

\* a returned list whose first chunk fills the window and whose second
\* window begins overlap characters before the end of the first
C25_Witness ==
    /\ spc = "done" /\ 0 < overlap /\ overlap < chunk_size
    /\ Len(windows) >= 2 /\ Len(chunks) >= 2
    /\ Len(chunks[1]) = chunk_size
    /\ windows[2][1] = windows[1][2] - overlap


\* C26: a successful delete means the document is gone.  For every
\* behaviour of the backing store (get_all_document_ids or an individual
\* delete failing internally included), whenever delete_document_from_rag(d)
\* returns True no id with prefix "{d}_chunk_" remains in the store, and
\* whenever it returns False the ids it did not reach are still present.
C26_DeleteTrueMeansGone ==
    (op.name = "delete" /\ ~op.running) =>
        /\ op.ret = "True" =>
              \A id \in DOMAIN collection : ~BelongsTo(id, op.doc)
        /\ op.ret = "False" =>
              \A id \in op.todo : id \in DOMAIN collection


(***************************************************************************)
(* add_document_to_rag (op) and delete_document_from_rag (dop) in flight   *)
(* at once on the one vector store: each awaited call of the store is a    *)
(* step, and the steps of the two calls interleave.                        *)
(***************************************************************************)
\* add_document_to_rag called once
ConcIngestBegin == op = Idle /\ IngestBegin /\ UNCHANGED dop

ConcIngestChunk == IngestChunk /\ UNCHANGED dop

\* delete_document_from_rag called once, lines 188-193
ConcDeleteBegin ==
    /\ dop = Idle
    /\ \E d \in DocIds, g \in GetOutcomes :
          dop' = DeleteEntered(collection, d, g)
    /\ UNCHANGED <<collection, op>>

\* delete_document_from_rag, one iteration of the loop, lines 196-200
ConcDeleteChunk ==
    /\ dop.running /\ dop.name = "delete"
    /\ \E chunk_id \in dop.todo, o \in DeleteOutcomes :
          LET r == DeleteStepped(dop, collection, chunk_id, o)
          IN  /\ collection' = r.collection
              /\ dop' = r.call
    /\ UNCHANGED op

InitConc ==
    /\ collection = EmptyCollection
    /\ op = Idle /\ dop = Idle
    /\ SplitIdle /\ EngineIdle /\ BookIdle /\ EmbedIdle /\ CiteIdle
    /\ ParaIdle /\ LimitIdle /\ SessionIdle

NextConc ==
    \/ ConcIngestBegin /\ UNCHANGED <<splitVars, engineVars, bookVars, embedVars,
                 citeVars, paraVars, limitVars, sessionVars>>
    \/ ConcIngestChunk /\ UNCHANGED <<splitVars, engineVars, bookVars, embedVars,
                 citeVars, paraVars, limitVars, sessionVars>>
    \/ ConcDeleteBegin /\ UNCHANGED <<splitVars, engineVars, bookVars, embedVars,
                 citeVars, paraVars, limitVars, sessionVars>>
    \/ ConcDeleteChunk /\ UNCHANGED <<splitVars, engineVars, bookVars, embedVars,
                 citeVars, paraVars, limitVars, sessionVars>>

SpecConc == InitConc /\ [][NextConc]_vars

\* the ids add_document_to_rag gives the chunks of the document of call c
IdsOfChunks(c) == {ChunkDocId(c.doc, i) : i \in 0..(Len(c.chunks) - 1)}

\* every call of the store made by the two calls succeeded
NoStoreFailure ==
    /\ op.ret = "True" /\ \A k \in 1..Len(op.adds) : op.adds[k]
    /\ dop.ret = "True" /\ ~dop.raised

C28_ProcessedImpliesIndexed ==
    (book.exists /\ book.is_processed) =>
        /\ op.name = "ingest" /\ op.doc = TheBook
        /\ IdsOfChunks(op) \subseteq DOMAIN collection


(***************************************************************************)
(* AIRateLimiter (backend/src/ai/rate_limiter.py): enforce_limit calls in  *)
(* flight on one event loop.  A call suspends at the asyncio.gather of     *)
(* is_allowed; its four checks then run, and the call resumes later;       *)
(* add_request has no suspension inside.                                   *)
(***************************************************************************)
MaxCallers == 3
MaxClock == 3

\* line 37 (20 in the source; the comparison is the same for a small limit)
max_requests_per_minute_per_user == 2

\* line 36: settings.api_rate_limit (100 unless configured)
max_requests_per_minute == 3

\* line 38 (60 in the source), in ticks of the clock
time_window == 2

Callers == 1..MaxCallers

UserIds == {"u1", "u2"}

ApiKey == "k"

Endpoint == "e"

NotCalling == [pc |-> "idle", user_id |-> "", allowed |-> FALSE, now |-> 0]

\* _clean_old_requests, lines 47-48
RECURSIVE CleanOldRequests(_, _)
CleanOldRequests(request_deque, now) ==
    IF request_deque # <<>> /\ now - Head(request_deque) > time_window
    THEN CleanOldRequests(Tail(request_deque), now)
    ELSE request_deque

\* _check_limit, lines 61-62, on the cleaned deque
CheckLimit(cleaned, limit) == Len(cleaned) < limit

\* enforce_limit called: lines 182, 160-167, up to the await of the gather
EnforceLimit(c) ==
    /\ enforce[c].pc = "idle"
    /\ \E u \in UserIds :
          enforce' = [enforce EXCEPT ![c] = [@ EXCEPT !.pc = "gather",
                                                     !.user_id = u]]
    /\ UNCHANGED <<requests_by_api_key, requests_by_user, requests_by_endpoint,
                   global_requests, clock>>

\* the four checks of the gather, lines 73-130 (each cleans its deque and
\* compares), and all(results) of line 169
RunChecks(c) ==
    /\ enforce[c].pc = "gather"
    /\ LET u == enforce[c].user_id
           by_key == CleanOldRequests(requests_by_api_key[ApiKey], clock)
           by_user == CleanOldRequests(requests_by_user[u], clock)
           by_endpoint == CleanOldRequests(requests_by_endpoint[Endpoint], clock)
           global == CleanOldRequests(global_requests, clock)
       IN  /\ requests_by_api_key' = [requests_by_api_key EXCEPT ![ApiKey] = by_key]
           /\ requests_by_user' = [requests_by_user EXCEPT ![u] = by_user]
           /\ requests_by_endpoint' =
                 [requests_by_endpoint EXCEPT ![Endpoint] = by_endpoint]
           /\ global_requests' = global
           /\ enforce' = [enforce EXCEPT ![c] = [@ EXCEPT
                 !.pc = "checked",
                 !.allowed =
                     /\ CheckLimit(by_key, max_requests_per_minute)
                     /\ CheckLimit(by_user, max_requests_per_minute_per_user)
                     /\ CheckLimit(by_endpoint, max_requests_per_minute)
                     /\ CheckLimit(global, max_requests_per_minute * 5)]]
    /\ UNCHANGED clock

\* enforce_limit resumed: the raise of lines 182-185, or add_request,
\* lines 188 and 140-146
Resume(c) ==
    /\ enforce[c].pc = "checked"
    /\ IF ~enforce[c].allowed
       THEN /\ enforce' = [enforce EXCEPT ![c] = [@ EXCEPT !.pc = "raised"]]
            /\ UNCHANGED <<requests_by_api_key, requests_by_user,
                           requests_by_endpoint, global_requests>>
       ELSE LET u == enforce[c].user_id
            IN  /\ requests_by_api_key' =
                      [requests_by_api_key EXCEPT ![ApiKey] = Append(@, clock)]
                /\ requests_by_user' =
                      [requests_by_user EXCEPT ![u] = Append(@, clock)]
                /\ requests_by_endpoint' =
                      [requests_by_endpoint EXCEPT ![Endpoint] = Append(@, clock)]
                /\ global_requests' = Append(global_requests, clock)
                /\ enforce' = [enforce EXCEPT ![c] = [@ EXCEPT !.pc = "done",
                                                               !.now = clock]]
    /\ UNCHANGED clock

\* time.time() moves on
Tick ==
    /\ clock < MaxClock
    /\ clock' = clock + 1
    /\ UNCHANGED <<requests_by_api_key, requests_by_user, requests_by_endpoint,
                   global_requests, enforce>>

InitLimit ==
    /\ requests_by_api_key = [k \in {ApiKey} |-> <<>>]
    /\ requests_by_user = [u \in UserIds |-> <<>>]
    /\ requests_by_endpoint = [e \in {Endpoint} |-> <<>>]
    /\ global_requests = <<>>
    /\ clock = 0
    /\ enforce = [c \in Callers |-> NotCalling]
    /\ RagIdle /\ SplitIdle /\ EngineIdle /\ BookIdle /\ EmbedIdle /\ CiteIdle
    /\ ParaIdle /\ ConcIdle /\ SessionIdle

NextLimit ==
    \/ \E c \in Callers : EnforceLimit(c) /\ UNCHANGED <<ragVars, splitVars,
                 engineVars, bookVars, embedVars, citeVars, paraVars, concVars,
                 sessionVars>>
    \/ \E c \in Callers : RunChecks(c) /\ UNCHANGED <<ragVars, splitVars,
                 engineVars, bookVars, embedVars, citeVars, paraVars, concVars,
                 sessionVars>>
    \/ \E c \in Callers : Resume(c) /\ UNCHANGED <<ragVars, splitVars,
                 engineVars, bookVars, embedVars, citeVars, paraVars, concVars,
                 sessionVars>>
    \/ Tick /\ UNCHANGED <<ragVars, splitVars, engineVars, bookVars, embedVars,
                 citeVars, paraVars, concVars, sessionVars>>

SpecLimit == InitLimit /\ [][NextLimit]_vars

\* the calls of user u that were admitted (returned without raising)
Admitted(u) == {c \in Callers : enforce[c].pc = "done" /\ enforce[c].user_id = u}

\* no window of time_window ticks holds more admissions of one user than
\* the per-user limit
AdmissionsWithinLimit ==
    \A u \in UserIds, w \in 0..MaxClock :
        Cardinality({c \in Admitted(u) :
                        w <= enforce[c].now /\ enforce[c].now < w + time_window})
          <= max_requests_per_minute_per_user

\* only admitted calls have recorded a timestamp: every deque holds at most
\* one timestamp per admitted call
OnlyAdmittedRecorded ==
    /\ \A u \in UserIds : Len(requests_by_user[u]) <= Cardinality(Admitted(u))
    /\ LET all == UNION {Admitted(u) : u \in UserIds}
       IN  /\ Len(global_requests) <= Cardinality(all)
           /\ Len(requests_by_api_key[ApiKey]) <= Cardinality(all)
           /\ Len(requests_by_endpoint[Endpoint]) <= Cardinality(all)

\* C29: the AI rate limit holds under concurrency.  For any interleaving of
\* concurrent enforce_limit calls (the check in is_allowed and the
\* recording in add_request are separated by await points), the number of
\* requests admitted for one user within any 60-second window never
\* exceeds max_requests_per_minute_per_user, and a call that raises
\* AILimitExceededException records no timestamp in any deque.
C29_RateLimitUnderConcurrency ==
    AdmissionsWithinLimit /\ OnlyAdmittedRecorded


(***************************************************************************)
(* SessionService.create_session (backend/src/services/session_service.py) *)
(* called by concurrent requests, each with its own database session: a    *)
(* call suspends at every awaited statement, and a row is visible to the   *)
(* other calls once its commit is done.                                    *)
(***************************************************************************)
MaxCreates == 3

Creators == 1..MaxCreates

SessionUsers == {"u1"}

SessionBooks == {"b1", "b2"}

NoRow == 0

NotCreating ==
    [pc |-> "idle", user_id |-> "", book_id |-> "", active_before |-> {},
     existing_session |-> NoRow, ret |-> NoRow]

\* lines 39-42: the rows the select of the active session matches
ActiveSessions(rows, user_id, book_id) ==
    {id \in DOMAIN rows : /\ rows[id].user_id = user_id
                          /\ rows[id].book_id = book_id
                          /\ rows[id].is_active}

\* lines 64-71 and the column defaults of the ReadingSession model: the
\* table with the new row, whose id is the next unused one
InsertSession(rows, user_id, book_id) ==
    LET id == Cardinality(DOMAIN rows) + 1
    IN  [i \in (DOMAIN rows) \cup {id} |->
            IF i = id
            THEN [user_id |-> user_id, book_id |-> book_id, is_active |-> TRUE]
            ELSE rows[i]]

\* create_session called, lines 23-35: the user and the book are looked up
\* (active_before keeps, for the claims, the active rows of the pair at the
\* time of the call)
CreateSession(c) ==
    /\ create[c].pc = "idle"
    /\ \E u \in SessionUsers, b \in SessionBooks, found \in BOOLEAN :
          create' = [create EXCEPT ![c] = [@ EXCEPT
                        !.pc = IF found THEN "verified" ELSE "raised",
                        !.user_id = u, !.book_id = b,
                        !.active_before =
                            ActiveSessions(reading_sessions, u, b)]]
    /\ UNCHANGED reading_sessions

\* lines 38-44: the select of the active session and .first()
SelectExisting(c) ==
    /\ create[c].pc = "verified"
    /\ LET found == ActiveSessions(reading_sessions, create[c].user_id,
                                   create[c].book_id)
       IN  \E row \in IF found = {} THEN {NoRow} ELSE found :
              create' = [create EXCEPT ![c] = [@ EXCEPT
                            !.pc = "selected", !.existing_session = row]]
    /\ UNCHANGED reading_sessions

\* lines 46-61: the existing session is touched and returned; lines 62-76:
\* a new row is added, committed and returned
CommitSession(c) ==
    /\ create[c].pc = "selected"
    /\ IF create[c].existing_session # NoRow
       THEN /\ reading_sessions' =
                  [reading_sessions EXCEPT
                     ![create[c].existing_session].is_active = TRUE]
            /\ create' = [create EXCEPT ![c] = [@ EXCEPT
                             !.pc = "done", !.ret = create[c].existing_session]]
       ELSE /\ reading_sessions' =
                  InsertSession(reading_sessions, create[c].user_id,
                                create[c].book_id)
            /\ create' = [create EXCEPT ![c] = [@ EXCEPT
                             !.pc = "done",
                             !.ret = Cardinality(DOMAIN reading_sessions) + 1]]

InitSession ==
    /\ reading_sessions = <<>>
    /\ create = [c \in Creators |-> NotCreating]
    /\ RagIdle /\ SplitIdle /\ EngineIdle /\ BookIdle /\ EmbedIdle /\ CiteIdle
    /\ ParaIdle /\ ConcIdle /\ LimitIdle

NextSession ==
    \/ \E c \in Creators : CreateSession(c) /\ UNCHANGED <<ragVars, splitVars,
                 engineVars, bookVars, embedVars, citeVars, paraVars, concVars,
                 limitVars>>
    \/ \E c \in Creators : SelectExisting(c) /\ UNCHANGED <<ragVars, splitVars,
                 engineVars, bookVars, embedVars, citeVars, paraVars, concVars,
                 limitVars>>
    \/ \E c \in Creators : CommitSession(c) /\ UNCHANGED <<ragVars, splitVars,
                 engineVars, bookVars, embedVars, citeVars, paraVars, concVars,
                 limitVars>>

SpecSession == InitSession /\ [][NextSession]_vars

\* C30: at most one active reading session per (user, book).  After any
\* sequence or interleaving of create_session(user, book) calls the
\* database holds at most one ReadingSession row with is_active = True for
\* that pair, and a call made while such a row exists returns that row's id
\* instead of creating a new row.
C30_OneActiveSessionPerPair ==
    /\ \A u \in SessionUsers, b \in SessionBooks :
          Cardinality(ActiveSessions(reading_sessions, u, b)) <= 1
    /\ \A c \in Creators :
          (create[c].pc = "done" /\ create[c].active_before # {}) =>
              create[c].ret \in create[c].active_before

====
